---- MODULE Spec2Model ----
(***************************************************************************)
(* MotionPad: the whiteboard reducer (src/lib/whiteboard-reducer.ts) as a  *)
(* state machine.  The CanvasState of the page is the state; every command *)
(* of CanvasAction is one action, computed by canvasReducer exactly as the *)
(* switch statement computes it.                                           *)
(*                                                                         *)
(* Numbers: scene coordinates are integers (every size in the code is an   *)
(* even integer, so width / 2 is exact); zoom is counted in tenths, so the *)
(* code's 0.1, 1 and 3 are 1, 10 and 30.                                   *)
(***************************************************************************)
EXTENDS Integers, Sequences, FiniteSets, TLC

\* ------------------------------------------------------------------ bounds
MaxSteps == 4        \* commands dispatched in one run
MaxCameras == 2      \* calls of startTracking in one run
MaxFrames == 3       \* frames the canvas is rendered with in one run
MaxCreates == 2      \* objects created by voice while the canvas is watched

\* ------------------------------------------------------- program constants
GRID_SIZE == 10
SNAP_THRESHOLD == 15
baseSize == 100
DUPLICATE_OFFSET == 20
ZOOM_MIN == 1        \* 0.1
ZOOM_MAX == 30       \* 3
ZOOM_DEFAULT == 10   \* 1
PINCH_THRESHOLD == 50    \* 0.05, in thousandths of the frame

Null == 0                    \* null (no id); real ids are 1, 2, ...
Undefined == "undefined"     \* the value of a missing or undefined property

DEFAULT_COLORS ==
    [box |-> "#6596F3", sticky |-> "#EAD094", circle |-> "#F24E1E",
     arrow |-> "#D3A4EA", textbox |-> "#83B366"]

\* ------------------------------------------------------------ input sets
Ids == {1, 2}                \* payload ids: the first two ids generateId hands out
CreateInputs ==
    { [objectType |-> "sticky", x |-> 0, y |-> 0],
      [objectType |-> "circle", x |-> 104, y |-> -5] }
MoveInputs == { [x |-> 70, y |-> 57], [x |-> 160, y |-> 4] }
ColorInputs == { "#000000" }
TextInputs == { "hi" }
PanInputs == { [deltaX |-> 12, deltaY |-> -7] }
ZoomInputs == { -100, -20, 100 }     \* -10, -2, +10

VARIABLES
    objects, selectedId, panX, panY, zoom, history, historyIndex, snapGuides,
    nextId,        \* generateId: the next fresh id
    lastAction,    \* the command the reducer was last called with
    steps,         \* how many commands have been dispatched
    snapCase,      \* calculateSnap on its own: the arguments of one call
    snapOut,       \* ... and what the call returned (<< >> before the call)
    handState,     \* useHandTracking: the published {leftHand, rightHand, gesture}
    lastGestureRef,    \* ... the gesture resolved for the previous frame
    lastMidpointRef,   \* ... the last two-hand midpoint (<< >> for null)
    prevGesture,       \* ... what lastGestureRef held when the last frame was processed
    threw,             \* ... whether the last call of processResults threw
    handsRef,      \* the tracker: TRUE once the Hands instance exists
    mediaPipeReady,    \* window.__MediaPipeReady
    isActive,
    cameraRef,     \* Null, or the index in cameras of the camera it refers to
    cameras,       \* every Camera startTracking has made: its running flag, the
                   \* isProcessingFrame of its onFrame closure, and how its last
                   \* send went ("none", "pending", "ok", "error", or "retry" for
                   \* one pending after an error)
    pendingStarts, \* calls of startTracking waiting for getUserMedia
    isDraggingRef, dragObjectRef,     \* WhiteboardCanvas: the drag flag, the drag target
    grabOffsetRef, lastPanMidpointRef,    \* ... (<< >> for null)
    frames,        \* ... how many frames the canvas has been rendered with
    dispatched,    \* ... the command types dispatched by the last event and its effects
    transcript,    \* useVoiceCommands: the transcript of one recognition result
    command,       \* ... the command parseCommand made of it: << >> before the call,
                   \* else << type >> with "null" for no command
    lastCall       \* "stop" once stopTracking has run, "start" once startTracking has
                   \* been called or has started a camera since ("none" at first)

canvasVars == << objects, selectedId, panX, panY, zoom, history, historyIndex,
                 snapGuides, nextId, lastAction, steps >>
snapVars == << snapCase, snapOut >>
hookVars == << handState, lastGestureRef, lastMidpointRef, prevGesture, threw >>
trackVars == << handsRef, mediaPipeReady, isActive, cameraRef, cameras,
               pendingStarts, lastCall >>
dragVars == << isDraggingRef, dragObjectRef, grabOffsetRef, lastPanMidpointRef,
              frames, dispatched >>
voiceVars == << transcript, command >>
vars == << canvasVars, snapVars, voiceVars, hookVars, trackVars, dragVars >>

\* The CanvasState value the reducer is called with.
state ==
    [objects |-> objects, selectedId |-> selectedId, panX |-> panX, panY |-> panY,
     zoom |-> zoom, history |-> history, historyIndex |-> historyIndex,
     snapGuides |-> snapGuides]

initialState ==
    [objects |-> << >>, selectedId |-> Null, panX |-> 0, panY |-> 0,
     zoom |-> ZOOM_DEFAULT, history |-> << << >> >>, historyIndex |-> 0,
     snapGuides |-> << >>]

\* ---------------------------------------------------------------- helpers
Abs(v) == IF v < 0 THEN -v ELSE v
Min(a, b) == IF a < b THEN a ELSE b
Max(a, b) == IF a > b THEN a ELSE b

\* Mutant: the value is always taken up to the next grid line.
snapToGrid_nextLine(value) == ((value + GRID_SIZE) \div GRID_SIZE) * GRID_SIZE

\* Math.round(value / GRID_SIZE) * GRID_SIZE; Math.round rounds a half up.
snapToGrid(value) == ((value + GRID_SIZE \div 2) \div GRID_SIZE) * GRID_SIZE

\* Array.prototype.find by id: << >> for undefined, << o >> for the first match.
find(objs, id) ==
    LET hits == SelectSeq(objs, LAMBDA o : o.id = id)
    IN  IF hits = << >> THEN << >> ELSE << Head(hits) >>

\* Array.prototype.filter keeping every object whose id differs.
filterOut(objs, id) == SelectSeq(objs, LAMBDA o : o.id # id)

\* JSON.parse(JSON.stringify(objs)): a new array of new objects, built from the
\* serialised properties; a property whose value is undefined is not serialised
\* and reads as undefined in the copy.
cloneObject(o) ==
    [id |-> o.id, type |-> o.type, x |-> o.x, y |-> o.y, width |-> o.width,
     height |-> o.height, color |-> o.color,
     text |-> IF o.text = Undefined THEN Undefined ELSE o.text,
     locked |-> o.locked]
JSONClone(objs) == [i \in 1..Len(objs) |-> cloneObject(objs[i])]

createObject(type, x, y, id) ==
    [id |-> id, type |-> type, x |-> snapToGrid(x), y |-> snapToGrid(y),
     width |-> IF type = "circle" THEN baseSize ELSE (baseSize * 3) \div 2,
     height |-> baseSize,
     color |-> DEFAULT_COLORS[type],
     text |-> IF type = "textbox" \/ type = "sticky" THEN "" ELSE Undefined,
     locked |-> FALSE]

\* ------------------------------------------------------------ calculateSnap
\* alignmentsX / alignmentsY: the three features of `other` on one axis, in the
\* order of the array literal.
\* Mutant: the right edge is taken at other.x, the width forgotten.
alignmentsX_rightWithoutWidth(other) ==
    << [pos |-> other.x, otherEdge |-> "left"],
       [pos |-> other.x, otherEdge |-> "right"],
       [pos |-> other.x + other.width \div 2, otherEdge |-> "centerX"] >>

alignmentsX(other) ==
    << [pos |-> other.x, otherEdge |-> "left"],
       [pos |-> other.x + other.width, otherEdge |-> "right"],
       [pos |-> other.x + other.width \div 2, otherEdge |-> "centerX"] >>

alignmentsY(other) ==
    << [pos |-> other.y, otherEdge |-> "top"],
       [pos |-> other.y + other.height, otherEdge |-> "bottom"],
       [pos |-> other.y + other.height \div 2, otherEdge |-> "centerY"] >>

\* The three checks of one pass of `for (const align of alignmentsX)`:
\* dragged left, right and center against align.pos, in that order.
checksX(draggedObject, newX, other, align) ==
    << [distance |-> Abs(newX - align.pos),
        position |-> align.pos,
        guide |-> [type |-> "vertical", position |-> align.pos,
                   fromObject |-> [id |-> draggedObject.id, edge |-> "left"],
                   toObject |-> [id |-> other.id, edge |-> align.otherEdge]]],
       [distance |-> Abs(newX + draggedObject.width - align.pos),
        position |-> align.pos - draggedObject.width,
        guide |-> [type |-> "vertical", position |-> align.pos,
                   fromObject |-> [id |-> draggedObject.id, edge |-> "right"],
                   toObject |-> [id |-> other.id, edge |-> align.otherEdge]]],
       [distance |-> Abs(newX + draggedObject.width \div 2 - align.pos),
        position |-> align.pos - draggedObject.width \div 2,
        guide |-> [type |-> "vertical", position |-> align.pos,
                   fromObject |-> [id |-> draggedObject.id, edge |-> "centerX"],
                   toObject |-> [id |-> other.id, edge |-> align.otherEdge]]] >>

checksY(draggedObject, newY, other, align) ==
    << [distance |-> Abs(newY - align.pos),
        position |-> align.pos,
        guide |-> [type |-> "horizontal", position |-> align.pos,
                   fromObject |-> [id |-> draggedObject.id, edge |-> "top"],
                   toObject |-> [id |-> other.id, edge |-> align.otherEdge]]],
       [distance |-> Abs(newY + draggedObject.height - align.pos),
        position |-> align.pos - draggedObject.height,
        guide |-> [type |-> "horizontal", position |-> align.pos,
                   fromObject |-> [id |-> draggedObject.id, edge |-> "bottom"],
                   toObject |-> [id |-> other.id, edge |-> align.otherEdge]]],
       [distance |-> Abs(newY + draggedObject.height \div 2 - align.pos),
        position |-> align.pos - draggedObject.height \div 2,
        guide |-> [type |-> "horizontal", position |-> align.pos,
                   fromObject |-> [id |-> draggedObject.id, edge |-> "centerY"],
                   toObject |-> [id |-> other.id, edge |-> align.otherEdge]]] >>

\* Mutant: a locked object is not skipped.
RECURSIVE candidatesX_snapsToLocked(_, _, _)
candidatesX_snapsToLocked(draggedObject, newX, otherObjects) ==
    IF otherObjects = << >> THEN << >>
    ELSE LET other == Head(otherObjects)
             rest == candidatesX_snapsToLocked(draggedObject, newX, Tail(otherObjects))
             al == alignmentsX(other)
         IN  IF other.id = draggedObject.id THEN rest
             ELSE checksX(draggedObject, newX, other, al[1])
                  \o checksX(draggedObject, newX, other, al[2])
                  \o checksX(draggedObject, newX, other, al[3]) \o rest

\* The outer loop: every check of every object that is neither the dragged object
\* nor locked, in iteration order.
RECURSIVE candidatesX(_, _, _)
candidatesX(draggedObject, newX, otherObjects) ==
    IF otherObjects = << >> THEN << >>
    ELSE LET other == Head(otherObjects)
             rest == candidatesX(draggedObject, newX, Tail(otherObjects))
             al == alignmentsX(other)
         IN  IF other.id = draggedObject.id \/ other.locked THEN rest
             ELSE checksX(draggedObject, newX, other, al[1])
                  \o checksX(draggedObject, newX, other, al[2])
                  \o checksX(draggedObject, newX, other, al[3]) \o rest

RECURSIVE candidatesY(_, _, _)
candidatesY(draggedObject, newY, otherObjects) ==
    IF otherObjects = << >> THEN << >>
    ELSE LET other == Head(otherObjects)
             rest == candidatesY(draggedObject, newY, Tail(otherObjects))
             al == alignmentsY(other)
         IN  IF other.id = draggedObject.id \/ other.locked THEN rest
             ELSE checksY(draggedObject, newY, other, al[1])
                  \o checksY(draggedObject, newY, other, al[2])
                  \o checksY(draggedObject, newY, other, al[3]) \o rest

\* Mutant: the closest candidate is kept however far it is.
RECURSIVE bestSnap_noThreshold(_, _)
bestSnap_noThreshold(cands, best) ==
    IF cands = << >> THEN best
    ELSE LET c == Head(cands)
         IN  IF best = << >> \/ c.distance < best[1].distance
             THEN bestSnap_noThreshold(Tail(cands), << c >>)
             ELSE bestSnap_noThreshold(Tail(cands), best)

\* Mutant: a candidate at the same distance replaces the one found before.
RECURSIVE bestSnap_lastOnTie(_, _)
bestSnap_lastOnTie(cands, best) ==
    IF cands = << >> THEN best
    ELSE LET c == Head(cands)
         IN  IF c.distance < SNAP_THRESHOLD
                /\ (best = << >> \/ c.distance <= best[1].distance)
             THEN bestSnap_lastOnTie(Tail(cands), << c >>)
             ELSE bestSnap_lastOnTie(Tail(cands), best)

\* bestXSnap / bestYSnap after the loop: << >> for null, else the candidate kept
\* by `if (dist < SNAP_THRESHOLD) if (!best || dist < best.distance) best = ...`.
RECURSIVE bestSnap(_, _)
bestSnap(cands, best) ==
    IF cands = << >> THEN best
    ELSE LET c == Head(cands)
         IN  IF c.distance < SNAP_THRESHOLD
                /\ (best = << >> \/ c.distance < best[1].distance)
             THEN bestSnap(Tail(cands), << c >>)
             ELSE bestSnap(Tail(cands), best)

\* Mutant: an axis without a candidate goes to the grid only when the other axis
\* has no candidate either.
applyBestSnaps_gridOnlyWithoutSnap(newX, newY, bestXSnap, bestYSnap) ==
    [x |-> IF bestXSnap # << >> THEN bestXSnap[1].position
           ELSE IF bestYSnap # << >> THEN newX ELSE snapToGrid(newX),
     y |-> IF bestYSnap # << >> THEN bestYSnap[1].position
           ELSE IF bestXSnap # << >> THEN newY ELSE snapToGrid(newY),
     guides |-> (IF bestXSnap # << >> THEN << bestXSnap[1].guide >> ELSE << >>)
                \o (IF bestYSnap # << >> THEN << bestYSnap[1].guide >> ELSE << >>)]

\* "Apply best snaps": the best candidate's position and guide, or the grid.
applyBestSnaps(newX, newY, bestXSnap, bestYSnap) ==
    [x |-> IF bestXSnap # << >> THEN bestXSnap[1].position ELSE snapToGrid(newX),
     y |-> IF bestYSnap # << >> THEN bestYSnap[1].position ELSE snapToGrid(newY),
     guides |-> (IF bestXSnap # << >> THEN << bestXSnap[1].guide >> ELSE << >>)
                \o (IF bestYSnap # << >> THEN << bestYSnap[1].guide >> ELSE << >>)]

calculateSnap(draggedObject, newX, newY, otherObjects) ==
    applyBestSnaps(newX, newY,
                   bestSnap(candidatesX(draggedObject, newX, otherObjects), << >>),
                   bestSnap(candidatesY(draggedObject, newY, otherObjects), << >>))

\* ------------------------------------------------------------ canvasReducer
\* One operator per case of the switch; s is the state passed in, a the action,
\* id the value generateId() returns if the case calls it.
\* Mutant: CREATE also pushes the new objects on history.
createdState_pushesHistory(s, newObject) ==
    [s EXCEPT !.objects = Append(s.objects, newObject),
              !.selectedId = newObject.id,
              !.snapGuides = << >>,
              !.history = Append(s.history, Append(s.objects, newObject)),
              !.historyIndex = s.historyIndex + 1]

createdState(s, newObject) ==
    [s EXCEPT !.objects = Append(s.objects, newObject),
              !.selectedId = newObject.id,
              !.snapGuides = << >>]

caseCREATE(s, a, id) ==
    createdState(s, createObject(a.payload.objectType, a.payload.x, a.payload.y, id))

\* Mutant: the move also selects the object it moves.
movedState_selects(s, a, snapResult) ==
    [s EXCEPT
       !.objects = [i \in 1..Len(s.objects) |->
           IF s.objects[i].id = a.payload.id
           THEN [s.objects[i] EXCEPT !.x = snapResult.x, !.y = snapResult.y]
           ELSE s.objects[i]],
       !.selectedId = a.payload.id,
       !.snapGuides = snapResult.guides]

\* Mutant: the new guides are added to the ones there were.
movedState_keepsOldGuides(s, a, snapResult) ==
    [s EXCEPT
       !.objects = [i \in 1..Len(s.objects) |->
           IF s.objects[i].id = a.payload.id
           THEN [s.objects[i] EXCEPT !.x = snapResult.x, !.y = snapResult.y]
           ELSE s.objects[i]],
       !.snapGuides = s.snapGuides \o snapResult.guides]

\* The newState of MOVE, given the snap result.
movedState(s, a, snapResult) ==
    [s EXCEPT
       !.objects = [i \in 1..Len(s.objects) |->
           IF s.objects[i].id = a.payload.id
           THEN [s.objects[i] EXCEPT !.x = snapResult.x, !.y = snapResult.y]
           ELSE s.objects[i]],
       !.snapGuides = snapResult.guides]

\* Mutant: the guard forgets `|| obj.locked`.
moveOf_ignoresLock(s, a, obj) ==
    IF obj = << >> THEN s
    ELSE movedState(s, a, calculateSnap(obj[1], a.payload.x, a.payload.y,
                                        filterOut(s.objects, a.payload.id)))

moveOf(s, a, obj) ==
    IF obj = << >> \/ obj[1].locked THEN s
    ELSE movedState(s, a, calculateSnap(obj[1], a.payload.x, a.payload.y,
                                        filterOut(s.objects, a.payload.id)))

caseMOVE(s, a) == moveOf(s, a, find(s.objects, a.payload.id))

caseDELETE(s, a) ==
    IF s.selectedId = a.payload.id
    THEN [s EXCEPT !.objects = filterOut(s.objects, a.payload.id),
                   !.selectedId = Null]
    ELSE [s EXCEPT !.objects = filterOut(s.objects, a.payload.id)]

\* Mutant: the offset position is not put on the grid.
duplicateOf_offGrid(s, obj, id) ==
    IF obj = << >> THEN s
    ELSE [s EXCEPT !.objects = Append(s.objects,
                       [obj[1] EXCEPT !.id = id,
                                      !.x = obj[1].x + DUPLICATE_OFFSET,
                                      !.y = obj[1].y + DUPLICATE_OFFSET]),
                   !.selectedId = id]

\* The newState of DUPLICATE: the copy appended and selected.
duplicateOf(s, obj, id) ==
    IF obj = << >> THEN s
    ELSE [s EXCEPT !.objects = Append(s.objects,
                       [obj[1] EXCEPT !.id = id,
                                      !.x = snapToGrid(obj[1].x + DUPLICATE_OFFSET),
                                      !.y = snapToGrid(obj[1].y + DUPLICATE_OFFSET)]),
                   !.selectedId = id]

caseDUPLICATE(s, a, id) == duplicateOf(s, find(s.objects, a.payload.id), id)

caseCOLOR(s, a) ==
    [s EXCEPT !.objects = [i \in 1..Len(s.objects) |->
        IF s.objects[i].id = a.payload.id
        THEN [s.objects[i] EXCEPT !.color = a.payload.color] ELSE s.objects[i]]]

caseTEXT(s, a) ==
    [s EXCEPT !.objects = [i \in 1..Len(s.objects) |->
        IF s.objects[i].id = a.payload.id
        THEN [s.objects[i] EXCEPT !.text = a.payload.text] ELSE s.objects[i]]]

caseLOCK(s, a) ==
    [s EXCEPT !.objects = [i \in 1..Len(s.objects) |->
        IF s.objects[i].id = a.payload.id
        THEN [s.objects[i] EXCEPT !.locked = TRUE] ELSE s.objects[i]]]

caseUNLOCK(s, a) ==
    [s EXCEPT !.objects = [i \in 1..Len(s.objects) |->
        IF s.objects[i].id = a.payload.id
        THEN [s.objects[i] EXCEPT !.locked = FALSE] ELSE s.objects[i]]]

caseSELECT(s, a) ==
    [s EXCEPT !.selectedId = a.payload.id, !.snapGuides = << >>]

caseCLEAR_SNAP_GUIDES(s) == [s EXCEPT !.snapGuides = << >>]

casePAN(s, a) ==
    [s EXCEPT !.panX = s.panX + a.payload.deltaX,
              !.panY = s.panY + a.payload.deltaY,
              !.snapGuides = << >>]

\* Mutant: the lower clamp Math.max(0.1, ...) is missing.
caseZOOM_noLowerClamp(s, a) ==
    [s EXCEPT !.zoom = Min(ZOOM_MAX, s.zoom + a.payload.delta)]

caseZOOM(s, a) ==
    [s EXCEPT !.zoom = Max(ZOOM_MIN, Min(ZOOM_MAX, s.zoom + a.payload.delta))]

caseRESET_CANVAS(s) == [s EXCEPT !.panX = 0, !.panY = 0, !.zoom = ZOOM_DEFAULT]

\* history is a 1-based sequence here, so history[k] of the code is s.history[k + 1].
\* Mutant: historyIndex is newHistory.length instead of newHistory.length - 1.
savedState_indexPastEnd(s, newHistory) ==
    [s EXCEPT !.history = newHistory, !.historyIndex = Len(newHistory)]

savedState(s, newHistory) ==
    [s EXCEPT !.history = newHistory, !.historyIndex = Len(newHistory) - 1]

\* Mutant: the snapshot is pushed on the whole history, nothing is sliced off.
caseSAVE_SNAPSHOT_noTruncation(s) ==
    [s EXCEPT !.history = Append(s.history, JSONClone(s.objects)),
              !.historyIndex = s.historyIndex + 1]

\* Mutant: slice(0, historyIndex) drops the entry at the current index too.
caseSAVE_SNAPSHOT_sliceShort(s) ==
    savedState(s, Append(SubSeq(s.history, 1, s.historyIndex), JSONClone(s.objects)))

caseSAVE_SNAPSHOT(s) ==
    savedState(s, Append(SubSeq(s.history, 1, s.historyIndex + 1), JSONClone(s.objects)))

\* objects restored from history[index]; UNDO passes prevIndex, REDO nextIndex.
\* Mutant: restoring also cuts history down to the restored entry.
restoredState_cutsHistory(s, index) ==
    [s EXCEPT !.objects = JSONClone(s.history[index + 1]),
              !.historyIndex = index,
              !.selectedId = Null,
              !.history = SubSeq(s.history, 1, index + 1)]

restoredState(s, index) ==
    [s EXCEPT !.objects = JSONClone(s.history[index + 1]),
              !.historyIndex = index,
              !.selectedId = Null]

\* Mutant: UNDO reads history[historyIndex] instead of history[prevIndex].
caseUNDO_readsCurrent(s) ==
    IF s.historyIndex > 0
    THEN [restoredState(s, s.historyIndex) EXCEPT !.historyIndex = s.historyIndex - 1]
    ELSE s

caseUNDO(s) ==
    IF s.historyIndex > 0 THEN restoredState(s, s.historyIndex - 1) ELSE s

\* Mutant: REDO moves the index on and leaves objects as they are.
caseREDO_keepsObjects(s) ==
    IF s.historyIndex < Len(s.history) - 1
    THEN [s EXCEPT !.historyIndex = s.historyIndex + 1, !.selectedId = Null]
    ELSE s

caseREDO(s) ==
    IF s.historyIndex < Len(s.history) - 1 THEN restoredState(s, s.historyIndex + 1) ELSE s

\* Helper to ensure snapGuides is always defined: every state of the model has
\* the field, so the state is returned as it is.
ensureSnapGuides(s) == s

canvasReducer(s, a, id) ==
    CASE a.type = "CREATE" -> ensureSnapGuides(caseCREATE(s, a, id))
      [] a.type = "MOVE" -> ensureSnapGuides(caseMOVE(s, a))
      [] a.type = "DELETE" -> ensureSnapGuides(caseDELETE(s, a))
      [] a.type = "DUPLICATE" -> ensureSnapGuides(caseDUPLICATE(s, a, id))
      [] a.type = "COLOR" -> ensureSnapGuides(caseCOLOR(s, a))
      [] a.type = "TEXT" -> ensureSnapGuides(caseTEXT(s, a))
      [] a.type = "LOCK" -> ensureSnapGuides(caseLOCK(s, a))
      [] a.type = "UNLOCK" -> ensureSnapGuides(caseUNLOCK(s, a))
      [] a.type = "SELECT" -> ensureSnapGuides(caseSELECT(s, a))
      [] a.type = "CLEAR_SNAP_GUIDES" -> ensureSnapGuides(caseCLEAR_SNAP_GUIDES(s))
      [] a.type = "PAN" -> ensureSnapGuides(casePAN(s, a))
      [] a.type = "ZOOM" -> ensureSnapGuides(caseZOOM(s, a))
      [] a.type = "RESET_CANVAS" -> ensureSnapGuides(caseRESET_CANVAS(s))
      [] a.type = "SAVE_SNAPSHOT" -> ensureSnapGuides(caseSAVE_SNAPSHOT(s))
      [] a.type = "UNDO" -> ensureSnapGuides(caseUNDO(s))
      [] a.type = "REDO" -> ensureSnapGuides(caseREDO(s))
      [] OTHER -> s

\* ---------------------------------------------------------- useHandTracking
\* Landmark coordinates are counted in thousandths of the normalized frame, so
\* PINCH_THRESHOLD 0.05 is 50.  A landmark list is a sequence of points; the
\* code's landmarks[k] is the (k+1)-th element, undefined when k >= length.
NoGesture == "null"          \* gesture: null

at(landmarks, k) == landmarks[k + 1]
missing(landmarks, ks) == \E k \in ks : k >= Len(landmarks)
\* Math.sqrt(dx^2 + dy^2) < d, with both sides squared.
closer(p, q, d) == (p.x - q.x) * (p.x - q.x) + (p.y - q.y) * (p.y - q.y) < d * d

detectFist(landmarks) ==
    IF Len(landmarks) < 13 THEN FALSE
    ELSE /\ at(landmarks, 8).y > at(landmarks, 5).y
         /\ at(landmarks, 12).y > at(landmarks, 9).y

detectOpenHand(landmarks) ==
    IF Len(landmarks) < 13 THEN FALSE
    ELSE /\ at(landmarks, 8).y < at(landmarks, 5).y
         /\ at(landmarks, 12).y < at(landmarks, 9).y

detectPinch(landmarks) ==
    IF Len(landmarks) < 9 THEN FALSE
    ELSE closer(at(landmarks, 4), at(landmarks, 8), PINCH_THRESHOLD)

\* ringCurl and pinkyCurl are computed before the return: past the length guard,
\* a list without landmark 16 or 20 makes detectPointing throw a TypeError.
detectPointingThrows(landmarks) ==
    Len(landmarks) >= 13 /\ missing(landmarks, {16, 13, 20, 17})

\* The value detectPointing returns when it does not throw.
detectPointing(landmarks) ==
    IF Len(landmarks) < 13 THEN FALSE
    ELSE /\ at(landmarks, 8).y < at(landmarks, 5).y
         /\ at(landmarks, 12).y > at(landmarks, 9).y
         /\ at(landmarks, 16).y > at(landmarks, 13).y
         /\ at(landmarks, 20).y > at(landmarks, 17).y

\* One pass of the forEach body throws in detectPointing, or at wrist.x when the
\* list is empty (wrist is undefined).
handPositionThrows(landmarks) ==
    detectPointingThrows(landmarks) \/ missing(landmarks, {0})

\* ... and otherwise builds handPos.
handPosition(landmarks) ==
    [x |-> at(landmarks, 0).x, y |-> at(landmarks, 0).y,
     isFist |-> detectFist(landmarks), isOpen |-> detectOpenHand(landmarks),
     isPinch |-> detectPinch(landmarks), isPointing |-> detectPointing(landmarks)]

\* The forEach over results.multiHandLandmarks: each hand goes to the role opposite
\* to its label, a later hand replacing an earlier one in the same role.
\* hands is [leftHand, rightHand, threw], a hand << >> for null or << HandPosition >>;
\* a throw ends the loop.
RECURSIVE assignHands(_, _)
assignHands(results, hands) ==
    IF results = << >> \/ hands.threw THEN hands
    ELSE IF handPositionThrows(Head(results).landmarks)
         THEN [hands EXCEPT !.threw = TRUE]
    ELSE IF Head(results).label = "Right"
         THEN assignHands(Tail(results),
                          [hands EXCEPT !.leftHand = << handPosition(Head(results).landmarks) >>])
         ELSE assignHands(Tail(results),
                          [hands EXCEPT !.rightHand = << handPosition(Head(results).landmarks) >>])

\* leftHand?.isPinch ?? false, and the like.
pred(hand, name) == IF hand = << >> THEN FALSE ELSE hand[1][name]

\* Mutant: the wasGrabbing branch is missing.
resolveGesture_noHysteresis(leftHand, rightHand, lastGesture) ==
    IF pred(leftHand, "isPinch") /\ pred(rightHand, "isPinch")
       /\ leftHand # << >> /\ rightHand # << >>
    THEN "pan"
    ELSE IF pred(leftHand, "isPinch") \/ pred(rightHand, "isPinch") THEN "grab"
    ELSE IF pred(leftHand, "isPointing") \/ pred(rightHand, "isPointing") THEN "pointing"
    ELSE IF (pred(leftHand, "isOpen") /\ rightHand = << >>)
            \/ (pred(rightHand, "isOpen") /\ leftHand = << >>)
    THEN "release"
    ELSE NoGesture

\* Mutant: pointing is tested before the pinches.
resolveGesture_pointingFirst(leftHand, rightHand, lastGesture) ==
    IF pred(leftHand, "isPointing") \/ pred(rightHand, "isPointing") THEN "pointing"
    ELSE IF pred(leftHand, "isPinch") /\ pred(rightHand, "isPinch")
            /\ leftHand # << >> /\ rightHand # << >>
    THEN "pan"
    ELSE IF pred(leftHand, "isPinch") \/ pred(rightHand, "isPinch") THEN "grab"
    ELSE IF lastGesture = "grab"
            /\ (pred(leftHand, "isOpen") \/ pred(rightHand, "isOpen")
                \/ (leftHand = << >> /\ rightHand = << >>))
    THEN "release"
    ELSE IF (pred(leftHand, "isOpen") /\ rightHand = << >>)
            \/ (pred(rightHand, "isOpen") /\ leftHand = << >>)
    THEN "release"
    ELSE NoGesture

\* The if / else-if chain that determines the gesture.
resolveGesture(leftHand, rightHand, lastGesture) ==
    IF pred(leftHand, "isPinch") /\ pred(rightHand, "isPinch")
       /\ leftHand # << >> /\ rightHand # << >>
    THEN "pan"
    ELSE IF pred(leftHand, "isPinch") \/ pred(rightHand, "isPinch") THEN "grab"
    ELSE IF pred(leftHand, "isPointing") \/ pred(rightHand, "isPointing") THEN "pointing"
    ELSE IF lastGesture = "grab"
            /\ (pred(leftHand, "isOpen") \/ pred(rightHand, "isOpen")
                \/ (leftHand = << >> /\ rightHand = << >>))
    THEN "release"
    ELSE IF (pred(leftHand, "isOpen") /\ rightHand = << >>)
            \/ (pred(rightHand, "isOpen") /\ leftHand = << >>)
    THEN "release"
    ELSE NoGesture

\* Mutant: the pan branch reports pan only once a midpoint has been stored.
resolved_panNeedsMidpoint(leftHand, rightHand, gesture, lastMidpoint) ==
    [threw |-> FALSE,
     state |-> [leftHand |-> leftHand, rightHand |-> rightHand,
                gesture |-> IF gesture = "pan" /\ lastMidpoint = << >>
                            THEN NoGesture ELSE gesture],
     lastGestureRef |-> gesture,
     lastMidpointRef |->
        IF gesture = "pan"
        THEN << [x |-> (leftHand[1].x + rightHand[1].x) \div 2,
                 y |-> (leftHand[1].y + rightHand[1].y) \div 2] >>
        ELSE lastMidpoint]

\* What processResults leaves behind once the gesture is determined: the state
\* it publishes and the two refs (the midpoint is written in the pan branch only).
resolved(leftHand, rightHand, gesture, lastMidpoint) ==
    [threw |-> FALSE,
     state |-> [leftHand |-> leftHand, rightHand |-> rightHand, gesture |-> gesture],
     lastGestureRef |-> gesture,
     lastMidpointRef |->
        IF gesture = "pan"
        THEN << [x |-> (leftHand[1].x + rightHand[1].x) \div 2,
                 y |-> (leftHand[1].y + rightHand[1].y) \div 2] >>
        ELSE lastMidpoint]

\* processResults(results) with the refs as they are at the call.  A throw in the
\* forEach leaves the refs alone and publishes nothing.
aggregate(hands, lastGesture, lastMidpoint) ==
    IF hands.threw THEN [threw |-> TRUE]
    ELSE resolved(hands.leftHand, hands.rightHand,
                  resolveGesture(hands.leftHand, hands.rightHand, lastGesture),
                  lastMidpoint)

processResults(results, lastGesture, lastMidpoint) ==
    aggregate(assignHands(results, [leftHand |-> << >>, rightHand |-> << >>,
                                    threw |-> FALSE]),
              lastGesture, lastMidpoint)

\* The results the tracker delivers: no hand, one hand or two hands, a hand being a
\* list of 21 landmarks of a hand posture -- or, for one hand, a shorter list.
WristPositions == { [x |-> 200, y |-> 500], [x |-> 600, y |-> 400] }
handLandmarks(fingers, pinch, wrist) ==
    [i \in 1..21 |->
        LET k == i - 1
            extended == fingers = "open" \/ (fingers = "point" /\ k = 8)
        IN  IF k = 0 THEN wrist
            ELSE IF k = 4
                 THEN [x |-> wrist.x + (IF pinch THEN 100 ELSE 180),
                       y |-> wrist.y - (IF fingers = "fist" THEN 80 ELSE 280)]
            ELSE IF k \in {8, 12, 16, 20}
                 THEN [x |-> wrist.x + 10 * k,
                       y |-> wrist.y - (IF extended THEN 300 ELSE 100)]
            ELSE [x |-> wrist.x + 10 * k, y |-> wrist.y - 200]]
HandInputs ==
    { handLandmarks(f, p, w) :
        f \in {"fist", "open", "point"}, p \in BOOLEAN, w \in WristPositions }
FrameInputs ==
    { << >> }
    \cup { << [label |-> l, landmarks |-> SubSeq(h, 1, n)] >> :
            l \in {"Left", "Right"}, h \in HandInputs, n \in {0, 5, 9, 13, 17, 21} }
    \cup { << [label |-> "Right", landmarks |-> a], [label |-> "Left", landmarks |-> b] >> :
            a \in HandInputs, b \in HandInputs }

\* --------------------------------------------------------- useVoiceCommands
\* Texts are strings.  A pattern is the sequence of the elements of its regular
\* expression: a literal, \s+, (\w+), (.+), [:\s]+, or a group (?:a|b) of
\* alternatives, optional when a ? follows it.  Every pattern has the i flag;
\* the table is written in lower case and is applied to lower-case text.
COMMAND_PATTERNS ==
    LET lit(s) == [k |-> "lit", s |-> s]
        ws == [k |-> "class", chars |-> " "]
        word == [k |-> "class", chars |-> "abcdefghijklmnopqrstuvwxyz0123456789_"]
        sep == [k |-> "class", chars |-> ": "]
        any == [k |-> "any"]
        oneOf(alts) == [k |-> "group", alts |-> alts, optional |-> FALSE]
        opt(alts) == [k |-> "group", alts |-> alts, optional |-> TRUE]
        a == opt(<< << lit("a"), ws >> >>)
        an == opt(<< << lit("an"), ws >> >>)
        the == opt(<< << lit("the"), ws >> >>)
        makeAdd == oneOf(<< << lit("make") >>, << lit("add") >> >>)
        target == opt(<< << lit("object") >>, << lit("item") >>, << lit("selected") >> >>)
        this == opt(<< << lit("this") >>, << lit("it") >>,
                       << lit("the"), ws, lit("object") >> >>)
    IN  << [pattern |-> << lit("create"), ws, a, lit("box") >>, type |-> "CREATE_BOX"],
           [pattern |-> << makeAdd, ws, a, lit("box") >>, type |-> "CREATE_BOX"],
           [pattern |-> << lit("create"), ws, a, lit("sticky"), ws,
                           opt(<< << lit("note") >> >>) >>, type |-> "CREATE_STICKY"],
           [pattern |-> << makeAdd, ws, a, lit("sticky") >>, type |-> "CREATE_STICKY"],
           [pattern |-> << lit("create"), ws, a, lit("circle") >>, type |-> "CREATE_CIRCLE"],
           [pattern |-> << makeAdd, ws, a, lit("circle") >>, type |-> "CREATE_CIRCLE"],
           [pattern |-> << lit("create"), ws, an, lit("arrow") >>, type |-> "CREATE_ARROW"],
           [pattern |-> << makeAdd, ws, an, lit("arrow") >>, type |-> "CREATE_ARROW"],
           [pattern |-> << lit("create"), ws, a, lit("text"), ws, lit("box") >>,
            type |-> "CREATE_TEXTBOX"],
           [pattern |-> << makeAdd, ws, a, lit("text"), ws, lit("box") >>,
            type |-> "CREATE_TEXTBOX"],
           [pattern |-> << lit("create"), ws, a, lit("textbox") >>, type |-> "CREATE_TEXTBOX"],
           [pattern |-> << lit("delete"), ws, the, target >>, type |-> "DELETE"],
           [pattern |-> << lit("remove"), ws, the, target >>, type |-> "DELETE"],
           [pattern |-> << lit("duplicate"), ws, the, target >>, type |-> "DUPLICATE"],
           [pattern |-> << lit("copy"), ws, the, target >>, type |-> "DUPLICATE"],
           [pattern |-> << lit("change"), ws, lit("color"), ws, lit("to"), ws, word >>,
            type |-> "COLOR"],
           [pattern |-> << lit("set"), ws, lit("color"), ws, lit("to"), ws, word >>,
            type |-> "COLOR"],
           [pattern |-> << lit("color"), ws, opt(<< << lit("it"), ws >> >>), word >>,
            type |-> "COLOR"],
           [pattern |-> << lit("make"), ws, lit("it"), ws, word >>, type |-> "COLOR"],
           [pattern |-> << lit("add"), ws, lit("text"), sep, any >>, type |-> "TEXT"],
           [pattern |-> << lit("set"), ws, lit("text"), sep, any >>, type |-> "TEXT"],
           [pattern |-> << lit("enter"), ws, lit("text"), sep, any >>, type |-> "TEXT"],
           [pattern |-> << lit("type"), ws, lit("text"), sep, any >>, type |-> "TEXT"],
           [pattern |-> << lit("lock"), ws, this >>, type |-> "LOCK"],
           [pattern |-> << lit("unlock"), ws, this >>, type |-> "UNLOCK"],
           [pattern |-> << lit("undo") >>, type |-> "UNDO"],
           [pattern |-> << lit("redo") >>, type |-> "REDO"],
           [pattern |-> << lit("zoom"), ws, lit("in") >>, type |-> "ZOOM_IN"],
           [pattern |-> << lit("zoom"), ws, lit("out") >>, type |-> "ZOOM_OUT"],
           [pattern |-> << lit("reset"), ws, lit("canvas") >>, type |-> "RESET_CANVAS"],
           [pattern |-> << lit("reset"), ws, the, lit("view") >>, type |-> "RESET_CANVAS"] >>

\* text.toLowerCase().trim()
normalizeText(text) ==
    LET upper == "ABCDEFGHIJKLMNOPQRSTUVWXYZ"
        lower == "abcdefghijklmnopqrstuvwxyz"
        lowerChar(c) ==
            IF \E i \in 1..26 : SubSeq(upper, i, i) = c
            THEN LET i == CHOOSE j \in 1..26 : SubSeq(upper, j, j) = c
                 IN  SubSeq(lower, i, i)
            ELSE c
        RECURSIVE toLowerCase(_)
        toLowerCase(s) ==
            IF s = "" THEN ""
            ELSE lowerChar(SubSeq(s, 1, 1)) \o toLowerCase(SubSeq(s, 2, Len(s)))
        RECURSIVE trim(_)
        trim(s) ==
            IF s = "" THEN ""
            ELSE IF SubSeq(s, 1, 1) = " " THEN trim(SubSeq(s, 2, Len(s)))
            ELSE IF SubSeq(s, Len(s), Len(s)) = " " THEN trim(SubSeq(s, 1, Len(s) - 1))
            ELSE s
    IN  trim(toLowerCase(text))

\* The positions at which a match of the pattern can end when it starts at one of
\* the positions in starts (a position is the number of characters before it).
RECURSIVE matchEnds(_, _, _)
matchEnds(pattern, text, starts) ==
    IF pattern = << >> THEN starts
    ELSE LET e == Head(pattern)
             inClass(c) == \E i \in 1..Len(e.chars) : SubSeq(e.chars, i, i) = c
             runs(ok(_)) ==
                { q \in 1..Len(text) :
                    \E p \in starts : p < q /\ \A i \in (p + 1)..q : ok(SubSeq(text, i, i)) }
             always(c) == TRUE
         IN  matchEnds(Tail(pattern), text,
                CASE e.k = "lit" ->
                       { p + Len(e.s) : p \in { q \in starts : q + Len(e.s) <= Len(text)
                                     /\ SubSeq(text, q + 1, q + Len(e.s)) = e.s } }
                  [] e.k = "class" -> runs(inClass)
                  [] e.k = "any" -> runs(always)
                  [] e.k = "group" ->
                       UNION { matchEnds(e.alts[i], text, starts) : i \in 1..Len(e.alts) }
                       \cup (IF e.optional THEN starts ELSE {}))

\* normalized.match(pattern) is not null: the pattern matches somewhere in the text.
matches(text, pattern) == matchEnds(pattern, text, 0..Len(text)) # {}

\* parseCommand: the type of the first pattern of the table that matches, "null"
\* when none does.  The payload of COLOR and TEXT is left out.
parseCommand(text) ==
    LET hits == { i \in 1..Len(COMMAND_PATTERNS) :
                    matches(normalizeText(text), COMMAND_PATTERNS[i].pattern) }
    IN  IF hits = {} THEN "null"
        ELSE COMMAND_PATTERNS[CHOOSE i \in hits : \A j \in hits : i <= j].type

\* The transcripts recognition delivers: the phrases of the instructions panel and
\* of the README, other wordings the table provides for, and words that are no
\* command; as they are, in lower case with a space around them, or after "please".
Phrases ==
    { "Create box", "Create sticky note", "Create circle", "Create arrow",
      "Delete object", "Duplicate object", "Change color to blue", "Add text: hi",
      "Lock this", "Unlock this", "Zoom in", "Zoom out", "Undo", "Redo",
      "Reset canvas", "create a text box", "create textbox", "make a box",
      "add an arrow", "add sticky", "remove the item", "copy", "set color to red",
      "color it green", "make it pink", "lock it", "unlock the object",
      "reset the view", "hello", "box" }
Transcripts ==
    Phrases \cup { " " \o normalizeText(p) \o " " : p \in Phrases }
    \cup { "please " \o normalizeText(p) : p \in Phrases }

\* ------------------------------------------------------------------ actions
\* The commands the model dispatches.
CreateActions == { [type |-> "CREATE", payload |-> p] : p \in CreateInputs }
MoveActions ==
    { [type |-> "MOVE", payload |-> [id |-> i, x |-> p.x, y |-> p.y]] :
        i \in Ids, p \in MoveInputs }
IdActions(t) == { [type |-> t, payload |-> [id |-> i]] : i \in Ids }
ColorActions ==
    { [type |-> "COLOR", payload |-> [id |-> i, color |-> c]] : i \in Ids, c \in ColorInputs }
TextActions ==
    { [type |-> "TEXT", payload |-> [id |-> i, text |-> t]] : i \in Ids, t \in TextInputs }
SelectActions == { [type |-> "SELECT", payload |-> [id |-> i]] : i \in Ids \cup {Null} }
PanActions == { [type |-> "PAN", payload |-> p] : p \in PanInputs }
ZoomActions == { [type |-> "ZOOM", payload |-> [delta |-> d]] : d \in ZoomInputs }
PlainAction(t) == [type |-> t]

\* Every command that changes objects without touching history.
MutationActions ==
    CreateActions \cup MoveActions \cup IdActions("DELETE") \cup IdActions("DUPLICATE")
    \cup ColorActions \cup TextActions \cup IdActions("LOCK") \cup IdActions("UNLOCK")

\* dispatch(a): the state becomes canvasReducer(state, a); generateId moves on
\* when the case has called it.
Commit(a, n) ==
    /\ steps' = steps + 1
    /\ objects' = n.objects
    /\ selectedId' = n.selectedId
    /\ panX' = n.panX
    /\ panY' = n.panY
    /\ zoom' = n.zoom
    /\ history' = n.history
    /\ historyIndex' = n.historyIndex
    /\ snapGuides' = n.snapGuides
    /\ nextId' = IF \E i \in 1..Len(n.objects) : n.objects[i].id = nextId
                 THEN nextId + 1 ELSE nextId
    /\ lastAction' = a
    /\ UNCHANGED << snapVars, voiceVars, hookVars, trackVars, dragVars >>

Dispatch(a) == Commit(a, canvasReducer(state, a, nextId))

CanvasInit ==
    /\ objects = initialState.objects
    /\ selectedId = initialState.selectedId
    /\ panX = initialState.panX
    /\ panY = initialState.panY
    /\ zoom = initialState.zoom
    /\ history = initialState.history
    /\ historyIndex = initialState.historyIndex
    /\ snapGuides = initialState.snapGuides
    /\ nextId = 1
    /\ lastAction = [type |-> "INIT"]
    /\ steps = 0

\* No call of calculateSnap on its own is under way.
SnapIdle == snapCase = << >> /\ snapOut = << >>

\* useHandTracking after the first render.
HookInit ==
    /\ handState = [leftHand |-> << >>, rightHand |-> << >>, gesture |-> NoGesture]
    /\ lastGestureRef = NoGesture
    /\ lastMidpointRef = << >>
    /\ prevGesture = NoGesture
    /\ threw = FALSE

\* ... no tracker instance, no camera yet.
TrackInit ==
    /\ handsRef = FALSE
    /\ mediaPipeReady = FALSE
    /\ isActive = FALSE
    /\ cameraRef = Null
    /\ cameras = << >>
    /\ pendingStarts = 0
    /\ lastCall = "none"

\* WhiteboardCanvas after the first render.
DragInit ==
    /\ isDraggingRef = FALSE
    /\ dragObjectRef = Null
    /\ grabOffsetRef = << >>
    /\ lastPanMidpointRef = << >>
    /\ frames = 0
    /\ dispatched = << >>

\* No recognition result has come in.
VoiceIdle == transcript = "" /\ command = << >>

Init == CanvasInit /\ SnapIdle /\ VoiceIdle /\ HookInit /\ TrackInit /\ DragInit

\* One action per command type; a run dispatches at most MaxSteps commands.
Create == /\ steps < MaxSteps
          /\ \E a \in CreateActions : Dispatch(a)
Move == /\ steps < MaxSteps
        /\ \E a \in MoveActions : Dispatch(a)
Delete == /\ steps < MaxSteps
          /\ \E a \in IdActions("DELETE") : Dispatch(a)
Duplicate == /\ steps < MaxSteps
             /\ \E a \in IdActions("DUPLICATE") : Dispatch(a)
Color == /\ steps < MaxSteps
         /\ \E a \in ColorActions : Dispatch(a)
Text == /\ steps < MaxSteps
        /\ \E a \in TextActions : Dispatch(a)
Lock == /\ steps < MaxSteps
        /\ \E a \in IdActions("LOCK") : Dispatch(a)
Unlock == /\ steps < MaxSteps
          /\ \E a \in IdActions("UNLOCK") : Dispatch(a)
Select == /\ steps < MaxSteps
          /\ \E a \in SelectActions : Dispatch(a)
ClearSnapGuides == /\ steps < MaxSteps
                   /\ Dispatch(PlainAction("CLEAR_SNAP_GUIDES"))
Pan == /\ steps < MaxSteps
       /\ \E a \in PanActions : Dispatch(a)
Zoom == /\ steps < MaxSteps
        /\ \E a \in ZoomActions : Dispatch(a)
ResetCanvas == /\ steps < MaxSteps
               /\ Dispatch(PlainAction("RESET_CANVAS"))
SaveSnapshot == /\ steps < MaxSteps
                /\ Dispatch(PlainAction("SAVE_SNAPSHOT"))
Undo == /\ steps < MaxSteps
        /\ Dispatch(PlainAction("UNDO"))
Redo == /\ steps < MaxSteps
        /\ Dispatch(PlainAction("REDO"))

Next ==
    \/ Create \/ Move \/ Delete \/ Duplicate \/ Color \/ Text \/ Lock \/ Unlock
    \/ Select \/ ClearSnapGuides \/ Pan \/ Zoom \/ ResetCanvas
    \/ SaveSnapshot \/ Undo \/ Redo

Spec == Init /\ [][Next]_vars

\* ------------------------------------------------- calculateSnap on its own
\* The arguments of one call of the exported function: the array holds one other
\* object (id 1) and the dragged object itself (id 2), which the loop skips by id.
SnapOthers ==
    { [createObject(t, p.x, p.y, 1) EXCEPT !.locked = l] :
        t \in {"circle", "sticky"},
        p \in { [x |-> 0, y |-> 0], [x |-> 200, y |-> 40] },
        l \in BOOLEAN }
SnapDragged == { createObject(t, 300, 300, 2) : t \in {"circle", "sticky"} }
SnapProposals ==
    { [x |-> px, y |-> py] : px \in {105, 88, 260, 5}, py \in {5, -52, 130} }
\* ... or two other objects, in either order.
SnapArrays(o, d) ==
    LET second == createObject("circle", 210, 140, 3)
    IN  { << o, d >>, << o, second, d >>, << second, o, d >> }
SnapCases ==
    { [draggedObject |-> c[1], newX |-> c[2].x, newY |-> c[2].y, otherObjects |-> c[3]] :
        c \in UNION { { << d, p, a >> : a \in SnapArrays(o, d) } :
                        << d, p, o >> \in SnapDragged \X SnapProposals \X SnapOthers } }

SnapInit ==
    /\ CanvasInit /\ VoiceIdle /\ HookInit /\ TrackInit /\ DragInit
    /\ snapCase \in { << c >> : c \in SnapCases }
    /\ snapOut = << >>

\* The call: the result of calculateSnap for the arguments drawn.
ApplySnap ==
    /\ snapCase # << >>
    /\ snapOut = << >>
    /\ snapOut' = << calculateSnap(snapCase[1].draggedObject, snapCase[1].newX,
                                      snapCase[1].newY, snapCase[1].otherObjects) >>
    /\ UNCHANGED << canvasVars, snapCase, voiceVars, hookVars, trackVars, dragVars >>

SnapNext == ApplySnap

SnapSpec == SnapInit /\ [][SnapNext]_vars

\* ------------------------------------------------------------ voice commands
\* recognition.onresult for one result: the transcript is parsed (and the command,
\* if there is one, handed to onCommand).
VoiceInit ==
    /\ CanvasInit /\ SnapIdle /\ HookInit /\ TrackInit /\ DragInit
    /\ transcript \in Transcripts
    /\ command = << >>
OnResult ==
    /\ command = << >>
    /\ command' = << parseCommand(transcript) >>
    /\ UNCHANGED << canvasVars, snapVars, transcript, hookVars, trackVars, dragVars >>

VoiceSpec == VoiceInit /\ [][OnResult]_vars

\* -------------------------------------------------- the gesture pipeline
\* hands.onResults(processResults): the callback sets the refs and publishes the
\* state, or throws before it has changed anything.
Publish(out) ==
    /\ threw' = out.threw
    /\ IF out.threw
       THEN UNCHANGED << handState, lastGestureRef, lastMidpointRef, prevGesture >>
       ELSE
         /\ handState' = out.state
         /\ lastGestureRef' = out.lastGestureRef
         /\ lastMidpointRef' = out.lastMidpointRef
         /\ prevGesture' = lastGestureRef
OnResults(results) == Publish(processResults(results, lastGestureRef, lastMidpointRef))

\* Frame after frame through the callback.
ProcessFrame ==
    /\ \E results \in FrameInputs : OnResults(results)
    /\ UNCHANGED << canvasVars, snapVars, voiceVars, trackVars, dragVars >>

GestureSpec == Init /\ [][ProcessFrame]_vars

\* ------------------------------------------------ startTracking / stopTracking
\* The results the tracker delivers here: no hand; one hand that pinches, is open
\* or points; two pinching hands.
TrackFrames ==
    { << >> }
    \cup { << [label |-> "Left",
               landmarks |-> handLandmarks(f, f = "fist", [x |-> 200, y |-> 500])] >> :
             f \in {"fist", "open", "point"} }
    \cup { << [label |-> "Right",
               landmarks |-> handLandmarks("fist", TRUE, [x |-> 600, y |-> 400])],
              [label |-> "Left",
               landmarks |-> handLandmarks("fist", TRUE, [x |-> 200, y |-> 500])] >> }

\* The cameras whose onFrame is waiting for handsRef.current.send to settle.
inFlight == { c \in DOMAIN cameras : cameras[c].isProcessingFrame }

\* The mount effect: the modules are loaded and the Hands instance is made ...
InitMediaPipe ==
    /\ ~handsRef
    /\ handsRef' = TRUE
    /\ UNCHANGED << canvasVars, snapVars, voiceVars, hookVars, dragVars, mediaPipeReady, isActive,
                    cameraRef, cameras, pendingStarts, lastCall >>

\* ... and a second later the timer marks it ready.
MediaPipeReady ==
    /\ handsRef /\ ~mediaPipeReady
    /\ mediaPipeReady' = TRUE
    /\ UNCHANGED << canvasVars, snapVars, voiceVars, hookVars, dragVars, handsRef, isActive,
                    cameraRef, cameras, pendingStarts, lastCall >>

\* startTracking up to its first await: without a Hands instance it gives up.
StartTracking ==
    /\ Len(cameras) + pendingStarts < MaxCameras
    /\ lastCall' = "start"
    /\ IF handsRef
       THEN pendingStarts' = pendingStarts + 1 /\ UNCHANGED isActive
       ELSE isActive' = FALSE /\ UNCHANGED pendingStarts
    /\ UNCHANGED << canvasVars, snapVars, voiceVars, hookVars, dragVars, handsRef, mediaPipeReady,
                    cameraRef, cameras >>

\* getUserMedia rejects.
PermissionDenied ==
    /\ pendingStarts > 0
    /\ pendingStarts' = pendingStarts - 1
    /\ isActive' = FALSE
    /\ UNCHANGED << canvasVars, snapVars, voiceVars, hookVars, dragVars, handsRef, mediaPipeReady,
                    cameraRef, cameras, lastCall >>

\* getUserMedia resolves: a new video element and a new Camera, whose onFrame
\* closure has its own isProcessingFrame; cameraRef is overwritten.
CameraStart ==
    /\ pendingStarts > 0
    /\ pendingStarts' = pendingStarts - 1
    /\ cameras' = Append(cameras, [running |-> TRUE, isProcessingFrame |-> FALSE,
                                    lastSend |-> "none"])
    /\ cameraRef' = Len(cameras) + 1
    /\ isActive' = TRUE
    /\ lastCall' = "start"
    /\ UNCHANGED << canvasVars, snapVars, voiceVars, hookVars, dragVars, handsRef, mediaPipeReady >>

\* onFrame of one camera, up to the await of send: the guards return early,
\* invalid video dimensions clear the flag, otherwise the frame is sent.
\* enoughData and sized are the video element's readyState and dimensions.
onFrame(cam, enoughData, sized) ==
    IF cam.isProcessingFrame \/ ~handsRef \/ ~enoughData \/ ~mediaPipeReady THEN cam
    ELSE IF ~sized THEN [cam EXCEPT !.isProcessingFrame = FALSE]
    ELSE [cam EXCEPT !.isProcessingFrame = TRUE,
                     !.lastSend = IF cam.lastSend = "error" THEN "retry" ELSE "pending"]

OnFrame ==
    /\ \E c \in DOMAIN cameras, enoughData \in BOOLEAN, sized \in BOOLEAN :
         /\ cameras[c].running
         /\ cameras' = [cameras EXCEPT ![c] = onFrame(cameras[c], enoughData, sized)]
    /\ UNCHANGED << canvasVars, snapVars, voiceVars, hookVars, dragVars, handsRef, mediaPipeReady, isActive,
                    cameraRef, pendingStarts, lastCall >>

\* Mutant: the flag is cleared after a send that succeeded only.
sendSettled_errorKeepsFlag(cam, failed) ==
    [cam EXCEPT !.isProcessingFrame = failed,
                !.lastSend = IF failed THEN "error" ELSE "ok"]

\* try / catch / finally around the await: the error is logged, the flag cleared.
sendSettled(cam, failed) ==
    [cam EXCEPT !.isProcessingFrame = FALSE,
                !.lastSend = IF failed THEN "error" ELSE "ok"]

\* send settles: the tracker has called processResults with its results, and a
\* throw of the callback makes send reject; or send itself has rejected.
SendComplete ==
    /\ \E c \in inFlight :
         \/ /\ \E results \in TrackFrames : OnResults(results)
            /\ cameras' = [cameras EXCEPT ![c] = sendSettled(cameras[c], threw')]
         \/ /\ UNCHANGED hookVars
            /\ cameras' = [cameras EXCEPT ![c] = sendSettled(cameras[c], TRUE)]
    /\ UNCHANGED << canvasVars, snapVars, voiceVars, dragVars, handsRef, mediaPipeReady, isActive,
                    cameraRef, pendingStarts, lastCall >>

\* stopTracking: the camera cameraRef refers to is stopped, the state is reset;
\* the refs of processResults and the callback registration are left as they are.
StopTracking ==
    /\ lastCall' = "stop"
    /\ IF cameraRef # Null
       THEN cameras' = [cameras EXCEPT ![cameraRef].running = FALSE]
       ELSE UNCHANGED cameras
    /\ cameraRef' = Null
    /\ isActive' = FALSE
    /\ handState' = [leftHand |-> << >>, rightHand |-> << >>, gesture |-> NoGesture]
    /\ UNCHANGED << canvasVars, snapVars, voiceVars, dragVars, lastGestureRef, lastMidpointRef,
                    prevGesture, threw, handsRef, mediaPipeReady, pendingStarts >>

TrackNext ==
    \/ InitMediaPipe \/ MediaPipeReady \/ StartTracking \/ PermissionDenied
    \/ CameraStart \/ OnFrame \/ SendComplete \/ StopTracking

TrackSpec == Init /\ [][TrackNext]_vars

\* The page after mount: its init effect calls startTracking once, from a timer
\* set for 1000 ms, while the hook's mount effect loads the modules; the modules
\* load and getUserMedia resolves, and nobody stops the tracking.
PageStart == lastCall = "none" /\ StartTracking

MountNext ==
    \/ InitMediaPipe \/ MediaPipeReady \/ PageStart \/ CameraStart \/ OnFrame
    \/ SendComplete

MountSpec == Init /\ [][MountNext]_vars

\* ------------------------------------------------------------ WhiteboardCanvas
\* The canvas element fills a 1000 x 1000 viewport, so a hand coordinate in
\* thousandths of the frame is a pixel count; with zoom in tenths the division
\* by state.zoom is exact at zoom 1, the only zoom this specification reaches.
rect == [left |-> 0, top |-> 0, width |-> 1000, height |-> 1000]
drag ==
    [isDragging |-> isDraggingRef, dragObject |-> dragObjectRef,
     grabOffset |-> grabOffsetRef, lastPanMidpoint |-> lastPanMidpointRef]

\* screenToCanvas of the mirrored hand position.
handCanvasPos(hand, s) ==
    [x |-> (((((1000 - hand.x) * rect.width) \div 1000) - rect.left - s.panX) * 10)
           \div s.zoom,
     y |-> ((((hand.y * rect.height) \div 1000) - rect.top - s.panY) * 10) \div s.zoom]

\* Mutant: an object as near as the nearest so far replaces it.
RECURSIVE findNearestObject_lastOnTie(_, _, _, _, _)
findNearestObject_lastOnTie(objs, x, y, nearest, minDistSq) ==
    IF objs = << >> THEN nearest
    ELSE LET obj == Head(objs)
             dx == x - (obj.x + obj.width \div 2)
             dy == y - (obj.y + obj.height \div 2)
         IN  IF ~obj.locked /\ dx * dx + dy * dy <= minDistSq
             THEN findNearestObject_lastOnTie(Tail(objs), x, y, << obj >>, dx * dx + dy * dy)
             ELSE findNearestObject_lastOnTie(Tail(objs), x, y, nearest, minDistSq)

\* findNearestObject: the loop over objects, nearest being << >> for null and
\* minDist kept squared.
RECURSIVE findNearestObject(_, _, _, _, _)
findNearestObject(objs, x, y, nearest, minDistSq) ==
    IF objs = << >> THEN nearest
    ELSE LET obj == Head(objs)
             dx == x - (obj.x + obj.width \div 2)
             dy == y - (obj.y + obj.height \div 2)
         IN  IF ~obj.locked /\ dx * dx + dy * dy < minDistSq
             THEN findNearestObject(Tail(objs), x, y, << obj >>, dx * dx + dy * dy)
             ELSE findNearestObject(Tail(objs), x, y, nearest, minDistSq)

\* The pan branch of the gesture effect: onPan once a midpoint is stored.
panEffect(d, mid) ==
    [drag |-> [d EXCEPT !.lastPanMidpoint = << mid >>],
     commands |->
        IF d.lastPanMidpoint = << >> THEN << >>
        ELSE << [type |-> "PAN",
                 payload |-> [deltaX |-> ((mid.x - d.lastPanMidpoint[1].x) * 3) \div 2,
                              deltaY |-> ((mid.y - d.lastPanMidpoint[1].y) * 3) \div 2]] >> ]

\* Mutant: every move takes the grab offset anew from where the object is now.
handEffect_offsetFollowsObject(gesture, s, d, canvasPos, nearest) ==
    IF gesture = "grab" /\ ~d.isDragging
    THEN IF nearest # << >> /\ ~nearest[1].locked
         THEN [drag |-> [d EXCEPT !.isDragging = TRUE, !.dragObject = nearest[1].id,
                           !.grabOffset =
                              << [x |-> canvasPos.x - (nearest[1].x + nearest[1].width \div 2),
                                  y |-> canvasPos.y - (nearest[1].y + nearest[1].height \div 2)] >>],
               commands |-> << [type |-> "SELECT", payload |-> [id |-> nearest[1].id]] >>]
         ELSE [drag |-> d, commands |-> << >>]
    ELSE IF gesture = "release"
    THEN IF d.isDragging /\ d.dragObject # Null
         THEN [drag |-> [d EXCEPT !.isDragging = FALSE, !.dragObject = Null,
                                  !.grabOffset = << >>],
               commands |-> << >>]
         ELSE [drag |-> d, commands |-> << >>]
    ELSE IF d.isDragging /\ d.dragObject # Null /\ d.grabOffset # << >>
            /\ find(s.objects, d.dragObject) # << >>
    THEN [drag |-> [d EXCEPT !.grabOffset =
                      << [x |-> canvasPos.x - (find(s.objects, d.dragObject)[1].x
                                               + find(s.objects, d.dragObject)[1].width \div 2),
                          y |-> canvasPos.y - (find(s.objects, d.dragObject)[1].y
                                               + find(s.objects, d.dragObject)[1].height \div 2)] >>],
          commands |->
            << [type |-> "MOVE",
                payload |-> [id |-> d.dragObject,
                             x |-> canvasPos.x - d.grabOffset[1].x
                                   - find(s.objects, d.dragObject)[1].width \div 2,
                             y |-> canvasPos.y - d.grabOffset[1].y
                                   - find(s.objects, d.dragObject)[1].height \div 2]] >>]
    ELSE [drag |-> d, commands |-> << >>]

\* Mutant: the release branch leaves the grab offset set.
handEffect_releaseKeepsOffset(gesture, s, d, canvasPos, nearest) ==
    IF gesture = "grab" /\ ~d.isDragging
    THEN IF nearest # << >> /\ ~nearest[1].locked
         THEN [drag |-> [d EXCEPT !.isDragging = TRUE, !.dragObject = nearest[1].id,
                           !.grabOffset =
                              << [x |-> canvasPos.x - (nearest[1].x + nearest[1].width \div 2),
                                  y |-> canvasPos.y - (nearest[1].y + nearest[1].height \div 2)] >>],
               commands |-> << [type |-> "SELECT", payload |-> [id |-> nearest[1].id]] >>]
         ELSE [drag |-> d, commands |-> << >>]
    ELSE IF gesture = "release"
    THEN IF d.isDragging /\ d.dragObject # Null
         THEN [drag |-> [d EXCEPT !.isDragging = FALSE, !.dragObject = Null],
               commands |-> << >>]
         ELSE [drag |-> d, commands |-> << >>]
    ELSE IF d.isDragging /\ d.dragObject # Null /\ d.grabOffset # << >>
            /\ find(s.objects, d.dragObject) # << >>
    THEN [drag |-> d,
          commands |->
            << [type |-> "MOVE",
                payload |-> [id |-> d.dragObject,
                             x |-> canvasPos.x - d.grabOffset[1].x
                                   - find(s.objects, d.dragObject)[1].width \div 2,
                             y |-> canvasPos.y - d.grabOffset[1].y
                                   - find(s.objects, d.dragObject)[1].height \div 2]] >>]
    ELSE [drag |-> d, commands |-> << >>]

\* The single-hand part of the gesture effect: start a drag, end it, or move.
handEffect(gesture, s, d, canvasPos, nearest) ==
    IF gesture = "grab" /\ ~d.isDragging
    THEN IF nearest # << >> /\ ~nearest[1].locked
         THEN [drag |-> [d EXCEPT !.isDragging = TRUE, !.dragObject = nearest[1].id,
                           !.grabOffset =
                              << [x |-> canvasPos.x - (nearest[1].x + nearest[1].width \div 2),
                                  y |-> canvasPos.y - (nearest[1].y + nearest[1].height \div 2)] >>],
               commands |-> << [type |-> "SELECT", payload |-> [id |-> nearest[1].id]] >>]
         ELSE [drag |-> d, commands |-> << >>]
    ELSE IF gesture = "release"
    THEN IF d.isDragging /\ d.dragObject # Null
         THEN [drag |-> [d EXCEPT !.isDragging = FALSE, !.dragObject = Null,
                                  !.grabOffset = << >>],
               commands |-> << >>]
         ELSE [drag |-> d, commands |-> << >>]
    ELSE IF d.isDragging /\ d.dragObject # Null /\ d.grabOffset # << >>
            /\ find(s.objects, d.dragObject) # << >>
    THEN [drag |-> d,
          commands |->
            << [type |-> "MOVE",
                payload |-> [id |-> d.dragObject,
                             x |-> canvasPos.x - d.grabOffset[1].x
                                   - find(s.objects, d.dragObject)[1].width \div 2,
                             y |-> canvasPos.y - d.grabOffset[1].y
                                   - find(s.objects, d.dragObject)[1].height \div 2]] >>]
    ELSE [drag |-> d, commands |-> << >>]

\* The hand the single-hand part works with: leftHand || rightHand.
activeHand(hs) == IF hs.leftHand # << >> THEN hs.leftHand ELSE hs.rightHand

singleHandEffect(hs, s, d, canvasPos) ==
    handEffect(hs.gesture, s, d, canvasPos,
               findNearestObject(s.objects, canvasPos.x, canvasPos.y, << >>, 80 * 80))

\* The gesture effect of WhiteboardCanvas for the props hs, the canvas state s and
\* the refs d: the refs it leaves and the commands its callbacks dispatch.
gestureEffect(hs, s, d) ==
    IF hs.gesture = "pan" /\ hs.leftHand # << >> /\ hs.rightHand # << >>
    THEN panEffect(d, [x |-> (((2000 - hs.leftHand[1].x - hs.rightHand[1].x) \div 2)
                              * rect.width) \div 1000,
                       y |-> (((hs.leftHand[1].y + hs.rightHand[1].y) \div 2)
                              * rect.height) \div 1000])
    ELSE IF activeHand(hs) = << >>
    THEN [drag |-> [d EXCEPT !.lastPanMidpoint = << >>], commands |-> << >>]
    ELSE singleHandEffect(hs, s, [d EXCEPT !.lastPanMidpoint = << >>],
                          handCanvasPos(activeHand(hs)[1], s))

\* The page's release effect, run when gesture or selectedId has changed.
releaseEffect(gesture, selected, changed) ==
    IF changed /\ gesture = "release" /\ selected # Null
    THEN << [type |-> "SAVE_SNAPSHOT"], [type |-> "CLEAR_SNAP_GUIDES"] >>
    ELSE << >>

\* dispatch of several commands in order.
RECURSIVE dispatchAll(_, _)
dispatchAll(s, commands) ==
    IF commands = << >> THEN s
    ELSE dispatchAll(canvasReducer(s, Head(commands), nextId), Tail(commands))

\* handleVoiceCommand of the page: the commands it dispatches for a voice command
\* of the given type; a new object goes to the scene point under the middle of the
\* viewport.
handleVoiceCommand(s, type) ==
    IF type \in {"CREATE_STICKY", "CREATE_CIRCLE"}
    THEN << [type |-> "CREATE",
             payload |-> [objectType |-> IF type = "CREATE_STICKY" THEN "sticky" ELSE "circle",
                          x |-> ((rect.width \div 2 - s.panX) * 10) \div s.zoom,
                          y |-> ((rect.height \div 2 - s.panY) * 10) \div s.zoom]],
            [type |-> "SAVE_SNAPSHOT"] >>
    ELSE IF type \in {"DELETE", "LOCK"} /\ s.selectedId # Null
    THEN << [type |-> type, payload |-> [id |-> s.selectedId]],
            [type |-> "SAVE_SNAPSHOT"] >>
    ELSE << >>

\* The frames the canvas is rendered with: no hand; one hand pinching, open or
\* closed, over an object created in the middle of the unpanned viewport or away
\* from it; two pinching hands.
HandNear == [x |-> 400, y |-> 560]
HandAway == [x |-> 240, y |-> 740]
CanvasFrames ==
    { << >> }
    \cup { << [label |-> "Left", landmarks |-> handLandmarks(f[1], f[2], w)] >> :
            f \in { << "fist", TRUE >>, << "open", FALSE >>, << "fist", FALSE >> },
            w \in { HandNear, HandAway } }
    \cup { << [label |-> "Right", landmarks |-> handLandmarks("fist", TRUE, w)],
              [label |-> "Left", landmarks |-> handLandmarks("fist", TRUE, HandAway)] >> :
            w \in { HandNear, HandAway } }

\* The state after the commands of one event and of the effects it set off.
SetCanvas(n, d, commands) ==
    /\ objects' = n.objects
    /\ selectedId' = n.selectedId
    /\ panX' = n.panX
    /\ panY' = n.panY
    /\ zoom' = n.zoom
    /\ history' = n.history
    /\ historyIndex' = n.historyIndex
    /\ snapGuides' = n.snapGuides
    /\ isDraggingRef' = d.isDragging
    /\ dragObjectRef' = d.dragObject
    /\ grabOffsetRef' = d.grabOffset
    /\ lastPanMidpointRef' = d.lastPanMidpoint
    /\ dispatched' = [i \in 1..Len(commands) |-> commands[i].type]
    /\ lastAction' = IF commands = << >> THEN lastAction ELSE commands[Len(commands)]

\* After a render with the props hs and the canvas state s (reached by the commands
\* in before): the gesture effect runs, then the page's release effect, and their
\* commands are dispatched in that order.
Settle(s, e, release, before) ==
    SetCanvas(dispatchAll(s, e.commands \o release), e.drag, before \o e.commands \o release)
RunEffects(hs, s, before, changed) ==
    Settle(s, gestureEffect(hs, s, drag), releaseEffect(hs.gesture, s.selectedId, changed),
           before)

\* A frame: processResults publishes the new hands and gesture, the page and the
\* canvas render with them.
FrameStep(out) ==
    /\ Publish(out)
    /\ RunEffects(out.state, state, << >>, out.state.gesture # handState.gesture)
CanvasFrame ==
    /\ frames < MaxFrames
    /\ frames' = frames + 1
    /\ \E results \in CanvasFrames :
         FrameStep(processResults(results, lastGestureRef, lastMidpointRef))
    /\ UNCHANGED << snapVars, voiceVars, trackVars, nextId, steps >>

\* A voice command: its commands are dispatched; objects and selectedId change, so
\* both effects run again with the props of the last frame.
VoiceStep(commands) ==
    /\ commands # << >>
    /\ RunEffects(handState, dispatchAll(state, commands), commands, TRUE)
CanvasCreate ==
    /\ steps < MaxCreates
    /\ steps' = steps + 1
    /\ nextId' = nextId + 1
    /\ \E type \in {"CREATE_STICKY", "CREATE_CIRCLE"} :
         VoiceStep(handleVoiceCommand(state, type))
    /\ UNCHANGED << snapVars, voiceVars, trackVars, hookVars, frames >>
CanvasDelete ==
    /\ VoiceStep(handleVoiceCommand(state, "DELETE"))
    /\ UNCHANGED << snapVars, voiceVars, trackVars, hookVars, frames, steps, nextId >>
\* "Lock this", counted with the creations.
CanvasLock ==
    /\ steps < MaxCreates
    /\ steps' = steps + 1
    /\ VoiceStep(handleVoiceCommand(state, "LOCK"))
    /\ UNCHANGED << snapVars, voiceVars, trackVars, hookVars, frames, nextId >>

CanvasNext == CanvasFrame \/ CanvasCreate \/ CanvasDelete \/ CanvasLock

CanvasSpec == Init /\ [][CanvasNext]_vars

\* ------------------------------------------------------------------ claims
\* reduce(a): what the reducer returns for command a in the current state.
reduce(a) == canvasReducer(state, a, nextId)
present(s, id) == \E i \in 1..Len(s.objects) : s.objects[i].id = id
SAVE_SNAPSHOT == PlainAction("SAVE_SNAPSHOT")
UNDO == PlainAction("UNDO")
REDO == PlainAction("REDO")
\* Every command that names a target object.
TargetActions == MutationActions \ CreateActions

\* C1: in every reachable state 0 <= historyIndex < len(history).
C1_HistoryIndexInRange == 0 <= historyIndex /\ historyIndex < Len(history)

\* C1 witness: a REDO has moved the index back to the last of several entries.
C1_Witness ==
    /\ lastAction.type = "REDO"
    /\ historyIndex > 0
    /\ historyIndex = Len(history) - 1
    /\ selectedId = Null

\* C2: from any state, SAVE_SNAPSHOT; mutation; SAVE_SNAPSHOT; UNDO leaves objects
\* equal to the objects at the first snapshot (same count as before the
\* mutation), and a following REDO gives the objects of the second snapshot.
RoundTrip(s0, m, id) ==
    LET s1 == canvasReducer(s0, SAVE_SNAPSHOT, id)
        s2 == canvasReducer(s1, m, id)
        s3 == canvasReducer(s2, SAVE_SNAPSHOT, id)
        s4 == canvasReducer(s3, UNDO, id)
        s5 == canvasReducer(s4, REDO, id)
    IN  /\ s4.objects = s1.objects
        /\ Len(s4.objects) = Len(s0.objects)
        /\ s5.objects = s3.objects
        /\ s3.objects = s2.objects
C2_UndoRedoRoundTrip == \A m \in MutationActions : RoundTrip(state, m, nextId)

\* C2 witness: two snapshots with a CREATE between them, then UNDO: objects are
\* the first snapshot, which has one object less than the second.
C2_Witness ==
    /\ lastAction.type = "UNDO"
    /\ Len(history) = 3
    /\ historyIndex = 1
    /\ objects = history[2]
    /\ Len(history[3]) = Len(objects) + 1

\* C3: right after any SAVE_SNAPSHOT historyIndex = len(history) - 1 and REDO
\* returns the state unchanged; after UNDO, a mutation and SAVE_SNAPSHOT the
\* entries after the undone index are gone and REDO is a no-op.
SnapshotIsTop(s, id) ==
    /\ s.historyIndex = Len(s.history) - 1
    /\ canvasReducer(s, REDO, id) = s
TruncatesAfterUndo(s0, m, id) ==
    LET u == canvasReducer(s0, UNDO, id)
        n == canvasReducer(canvasReducer(u, m, id), SAVE_SNAPSHOT, id)
    IN  /\ Len(n.history) = u.historyIndex + 2
        /\ SubSeq(n.history, 1, u.historyIndex + 1) = SubSeq(s0.history, 1, u.historyIndex + 1)
        /\ SnapshotIsTop(n, id)
C3_SnapshotDiscardsFuture ==
    /\ lastAction.type = "SAVE_SNAPSHOT" => SnapshotIsTop(state, nextId)
    /\ SnapshotIsTop(reduce(SAVE_SNAPSHOT), nextId)
    /\ historyIndex > 0 => \A m \in MutationActions : TruncatesAfterUndo(state, m, nextId)

\* C3 witness: a REDO dispatched at the snapshot just taken (the last entry, equal
\* to objects) was a no-op: the selection a successful REDO clears is still there.
C3_Witness ==
    /\ lastAction.type = "REDO"
    /\ Len(history) >= 2
    /\ historyIndex = Len(history) - 1
    /\ history[Len(history)] = objects
    /\ selectedId # Null

\* C4: selectedId is null or the id of an object in objects.
C4_SelectedIdPresent == selectedId = Null \/ present(state, selectedId)

\* C5: every id a snap guide refers to is the id of an object in objects.
C5_GuidesReferencePresentObjects ==
    \A k \in 1..Len(snapGuides) :
        /\ present(state, snapGuides[k].fromObject.id)
        /\ present(state, snapGuides[k].toObject.id)

\* C6: MOVE on a locked object returns the state unchanged in every field.
C6_MoveLockedIsNoOp ==
    \A a \in MoveActions :
        (\E i \in 1..Len(objects) : objects[i].id = a.payload.id /\ objects[i].locked)
            => reduce(a) = state

\* C6 witness: the last command was a MOVE of an object that is locked, and the
\* object is not where the MOVE asked for.
C6_Witness ==
    /\ lastAction.type = "MOVE"
    /\ \E i \in 1..Len(objects) :
          /\ objects[i].id = lastAction.payload.id
          /\ objects[i].locked
          /\ objects[i].x # snapToGrid(lastAction.payload.x)

\* C7: a command whose precondition is violated returns the state unchanged:
\* MOVE, DELETE, DUPLICATE, COLOR, TEXT, LOCK, UNLOCK with an id not in objects,
\* UNDO at historyIndex = 0, REDO at historyIndex = len(history) - 1.
C7_ViolatedPreconditionIsNoOp ==
    /\ \A a \in TargetActions : ~present(state, a.payload.id) => reduce(a) = state
    /\ historyIndex = 0 => reduce(UNDO) = state
    /\ historyIndex = Len(history) - 1 => reduce(REDO) = state

\* C8: UNDO and REDO leave history, panX, panY and zoom as they are; when they
\* apply they set objects to the snapshot at the new index, move historyIndex by
\* exactly one and clear selectedId.
UndoRedoFrame(s, n, applies, d) ==
    /\ n.history = s.history
    /\ n.panX = s.panX /\ n.panY = s.panY /\ n.zoom = s.zoom
    /\ IF applies
       THEN /\ n.historyIndex = s.historyIndex + d
            /\ n.objects = s.history[s.historyIndex + d + 1]
            /\ n.selectedId = Null
       ELSE n = s
C8_UndoRedoFrame ==
    /\ UndoRedoFrame(state, reduce(UNDO), historyIndex > 0, -1)
    /\ UndoRedoFrame(state, reduce(REDO), historyIndex < Len(history) - 1, 1)

\* C8 witness: an UNDO has applied with a view that was panned or zoomed: objects
\* are the earlier snapshot, the later one is still in history.
C8_Witness ==
    /\ lastAction.type = "UNDO"
    /\ historyIndex < Len(history) - 1
    /\ objects = history[historyIndex + 1]
    /\ history[historyIndex + 2] # objects
    /\ (panX # 0 \/ zoom # ZOOM_DEFAULT)

\* C9: SAVE_SNAPSHOT with history h and index i gives history = h[0..i] followed
\* by the current objects and historyIndex = i + 1; objects, selectedId, pan and
\* zoom are unchanged.
SnapshotEffect(s, n) ==
    /\ n.history = Append(SubSeq(s.history, 1, s.historyIndex + 1), s.objects)
    /\ n.historyIndex = s.historyIndex + 1
    /\ Len(n.history) = s.historyIndex + 2
    /\ n.objects = s.objects
    /\ n.selectedId = s.selectedId
    /\ n.panX = s.panX /\ n.panY = s.panY /\ n.zoom = s.zoom
C9_SnapshotEffect == SnapshotEffect(state, reduce(SAVE_SNAPSHOT))

\* C9 witness: a snapshot of a non-empty scene with a selection was just appended.
C9_Witness ==
    /\ lastAction.type = "SAVE_SNAPSHOT"
    /\ objects # << >>
    /\ selectedId # Null
    /\ history[historyIndex + 1] = objects
    /\ historyIndex = Len(history) - 1

\* C10: ZOOM(delta) sets zoom to zoom + delta clamped to [0.1, 3.0]; +10 from 1.0
\* gives 3.0 and -10 from 1.0 gives 0.1; zoom is in [0.1, 3.0] in every state.
ZoomProbes == { -100, -20, -1, 1, 20, 100 }
Clamped(z, d, r) ==
    /\ ZOOM_MIN <= r /\ r <= ZOOM_MAX
    /\ (ZOOM_MIN <= z + d /\ z + d <= ZOOM_MAX) => r = z + d
    /\ z + d > ZOOM_MAX => r = ZOOM_MAX
    /\ z + d < ZOOM_MIN => r = ZOOM_MIN
C10_ZoomClamped ==
    /\ ZOOM_MIN <= zoom /\ zoom <= ZOOM_MAX
    /\ \A d \in ZoomProbes :
          Clamped(zoom, d, reduce([type |-> "ZOOM", payload |-> [delta |-> d]]).zoom)
    /\ zoom = ZOOM_DEFAULT =>
          /\ reduce([type |-> "ZOOM", payload |-> [delta |-> 100]]).zoom = ZOOM_MAX
          /\ reduce([type |-> "ZOOM", payload |-> [delta |-> -100]]).zoom = ZOOM_MIN
    /\ reduce(PlainAction("RESET_CANVAS")).zoom = ZOOM_DEFAULT

\* C10 witness: ZOOM(-10) has just clamped the zoom to 0.1.
C10_Witness ==
    /\ lastAction.type = "ZOOM"
    /\ lastAction.payload.delta = -100
    /\ zoom = ZOOM_MIN

\* C11: with unlocked A at (0,0) of size 100x100 and B of size 100x100 moved to the
\* proposed position (105,5), B's left edge snaps to A's right edge (x = 100) and
\* the result holds exactly one vertical guide, which references A's right edge.
C11Case(c) ==
    /\ c.otherObjects[1].x = 0 /\ c.otherObjects[1].y = 0
    /\ c.otherObjects[1].width = 100 /\ c.otherObjects[1].height = 100
    /\ ~c.otherObjects[1].locked
    /\ c.draggedObject.width = 100 /\ c.draggedObject.height = 100
    /\ c.newX = 105 /\ c.newY = 5
verticalGuides(r) == SelectSeq(r.guides, LAMBDA g : g.type = "vertical")
C11_SnapExample ==
    (snapCase # << >> /\ snapOut # << >> /\ C11Case(snapCase[1])) =>
        /\ snapOut[1].x = 100
        /\ Len(verticalGuides(snapOut[1])) = 1
        /\ verticalGuides(snapOut[1])[1] =
              [type |-> "vertical", position |-> 100,
               fromObject |-> [id |-> snapCase[1].draggedObject.id, edge |-> "left"],
               toObject |-> [id |-> snapCase[1].otherObjects[1].id, edge |-> "right"]]

\* C11 witness: the example has been computed (it also snapped the top edge to
\* A's top edge, so a horizontal guide is in the result beside the vertical one).
C11_Witness ==
    /\ snapCase # << >> /\ snapOut # << >> /\ C11Case(snapCase[1])
    /\ snapOut[1].y = 0
    /\ Len(snapOut[1].guides) = 2

\* The six-rule priority table of the Gesture Aggregator, evaluated top-down.
Gestures == {"grab", "release", "pan", "pointing", NoGesture}
isPresent(hand) == hand # << >>
shows(hand, name) == isPresent(hand) /\ hand[1][name]
PriorityTable(l, r, prev) ==
    CASE isPresent(l) /\ isPresent(r) /\ shows(l, "isPinch") /\ shows(r, "isPinch") -> "pan"
      [] OTHER ->
    CASE shows(l, "isPinch") # shows(r, "isPinch") -> "grab"
      [] OTHER ->
    CASE shows(l, "isPointing") \/ shows(r, "isPointing") -> "pointing"
      [] OTHER ->
    CASE prev = "grab" /\ (shows(l, "isOpen") \/ shows(r, "isOpen")
                           \/ (~isPresent(l) /\ ~isPresent(r))) -> "release"
      [] OTHER ->
    CASE (isPresent(l) # isPresent(r)) /\ (shows(l, "isOpen") \/ shows(r, "isOpen")) -> "release"
      [] OTHER -> NoGesture
\* Every combination of the four predicates of a hand, and no hand.
AnyHand ==
    { << >> } \cup
    { << [x |-> 200, y |-> 500, isFist |-> f, isOpen |-> o, isPinch |-> p, isPointing |-> q] >> :
        f \in BOOLEAN, o \in BOOLEAN, p \in BOOLEAN, q \in BOOLEAN }

\* C12: for every combination of hand presence, per-hand predicates and previous
\* gesture the aggregator's output equals the priority table; so does the gesture
\* of every frame processed.
C12_PriorityTable ==
    /\ \A l \in AnyHand, r \in AnyHand, prev \in Gestures :
          resolveGesture(l, r, prev) = PriorityTable(l, r, prev)
    /\ handState.gesture =
          PriorityTable(handState.leftHand, handState.rightHand, prevGesture)

\* C12 witness: rule 5 without rule 4 -- one open hand alone, no grab before.
C12_Witness ==
    /\ handState.gesture = "release"
    /\ prevGesture = "pointing"
    /\ handState.leftHand = << >>
    /\ shows(handState.rightHand, "isOpen")

\* C13: both hands present and pinching and at least one of them pointing resolves
\* to pan, whatever the previous gesture.
C13_PanBeforePointing ==
    /\ \A l \in AnyHand, r \in AnyHand, prev \in Gestures :
          (shows(l, "isPinch") /\ shows(r, "isPinch")
           /\ (shows(l, "isPointing") \/ shows(r, "isPointing")))
          => resolveGesture(l, r, prev) = "pan"
    /\ (shows(handState.leftHand, "isPinch") /\ shows(handState.rightHand, "isPinch")
         /\ (shows(handState.leftHand, "isPointing")
             \/ shows(handState.rightHand, "isPointing")))
        => handState.gesture = "pan"

\* C13 witness: a frame with two pinching hands, the left one pointing, after a
\* pointing frame.
C13_Witness ==
    /\ shows(handState.leftHand, "isPinch") /\ shows(handState.rightHand, "isPinch")
    /\ shows(handState.leftHand, "isPointing")
    /\ prevGesture = "pointing"
    /\ handState.gesture = "pan"

noHands(hs) == ~isPresent(hs.leftHand) /\ ~isPresent(hs.rightHand)
\* Some hand is present and no hand is pinching, pointing or open.
idleHand(hs) ==
    /\ isPresent(hs.leftHand) \/ isPresent(hs.rightHand)
    /\ \A name \in {"isPinch", "isPointing", "isOpen"} :
          ~shows(hs.leftHand, name) /\ ~shows(hs.rightHand, name)

\* C14: whenever a frame has resolved to grab and the next processed frame has no
\* hands present, that next frame resolves to release, not none.
C14_ReleaseAfterGrab ==
    [][(lastGestureRef = "grab" /\ noHands(handState'))
       => handState'.gesture = "release"]_vars

\* C14 witness: the frame after a grab had no hands and resolved to release.
C14_Witness ==
    prevGesture = "grab" /\ noHands(handState) /\ handState.gesture = "release"

\* C15: a frame resolved to grab is never immediately followed by a frame resolved
\* to none.
C15_GrabNeverFollowedByNone ==
    [][lastGestureRef = "grab" => lastGestureRef' # NoGesture]_vars

\* C15 amended: a frame resolved to grab is followed by a frame resolved to none
\* only when that frame shows a hand and no hand is pinching, pointing or open;
\* with no hand present or a hand open the next gesture is never none.
C15_GrabFollowedByNoneOnlyIdle ==
    [][(lastGestureRef = "grab" /\ lastGestureRef' = NoGesture)
       => idleHand(handState')]_vars

\* C15 witness: after a grab, a frame with one closed fist resolved to none.
C15_Witness ==
    /\ prevGesture = "grab" /\ lastGestureRef = NoGesture
    /\ handState.gesture = NoGesture
    /\ shows(handState.rightHand, "isFist") /\ ~isPresent(handState.leftHand)

\* C16: an evaluation with the predicates of both hands and the previous gesture of
\* the last processed frame gives the gesture that frame got, whatever midpoint
\* is stored, whatever the wrist positions and whatever frames came before.
predicates(hand) ==
    IF hand = << >> THEN << >>
    ELSE << hand[1].isFist, hand[1].isOpen, hand[1].isPinch, hand[1].isPointing >>
MidpointProbes == { << >>, << [x |-> 400, y |-> 450] >>, lastMidpointRef }
sameGesture(out, hs) ==
    (~out.threw /\ predicates(out.state.leftHand) = predicates(hs.leftHand)
               /\ predicates(out.state.rightHand) = predicates(hs.rightHand))
    => out.state.gesture = hs.gesture
C16_Deterministic ==
    \A results \in FrameInputs, m \in MidpointProbes :
        sameGesture(processResults(results, prevGesture, m), handState)

\* C16 witness: a grab resolved while a midpoint of an earlier pan was stored, for a
\* hand at the second wrist position.
C16_Witness ==
    /\ handState.gesture = "grab" /\ prevGesture = "pan"
    /\ lastMidpointRef # << >>
    /\ isPresent(handState.leftHand) /\ handState.leftHand[1].x = 600

\* C17: for every landmark list of fewer than 21 points each of the four predicates
\* returns false, and processing a frame never throws.
C17_FailClosed ==
    /\ ~threw
    /\ \A results \in { f \in FrameInputs : Len(f) = 1 } :
          Len(results[1].landmarks) < 21 =>
            /\ ~detectFist(results[1].landmarks)
            /\ ~detectOpenHand(results[1].landmarks)
            /\ ~detectPinch(results[1].landmarks)
            /\ ~detectPointingThrows(results[1].landmarks)
            /\ ~detectPointing(results[1].landmarks)

\* C18: at most one classification is in flight at any time, for any interleaving
\* of frame arrivals and send completions and any sequence of startTracking and
\* stopTracking calls.
C18_AtMostOneInFlight == Cardinality(inFlight) <= 1

\* C19: once stopTracking has run and until startTracking is called again, no
\* further frame is sent to the tracker and the published state stays
\* {leftHand: null, rightHand: null, gesture: null}.
C19_StoppedStaysNull ==
    [][lastCall' = "stop" =>
         /\ handState' = [leftHand |-> << >>, rightHand |-> << >>, gesture |-> NoGesture]
         /\ inFlight' \subseteq inFlight]_vars

\* C20: whenever a frame resolves to release while a drag is in progress -- a hand
\* open, or both hands absent after a grab -- the canvas ends the drag (drag flag,
\* drag target and grab offset cleared), and no MOVE is dispatched from then on
\* until a grab frame has started a new drag.
dragCleared == ~isDraggingRef /\ dragObjectRef = Null /\ grabOffsetRef = << >>
C20_ReleaseEndsDrag ==
    [][/\ (frames' # frames /\ handState'.gesture = "release") => dragCleared'
       /\ (handState.gesture = "release" /\ frames' # frames)
             => \A i \in 1..Len(dispatched') : dispatched'[i] # "MOVE"]_vars

\* The commands of the given type among those of the last step.
countOf(commands, type) == Cardinality({ i \in 1..Len(commands) : commands[i] = type })
\* The step is a frame whose release branch has ended a drag.
dragEnds == frames' # frames /\ isDraggingRef /\ ~isDraggingRef'

\* C21: the page saves exactly one snapshot per completed drag: a frame dispatches
\* one SAVE_SNAPSHOT when its release gesture ends a drag and none otherwise --
\* none in a frame that dispatches MOVE, none for a release that ends no drag.
C21_OneSnapshotPerDrag ==
    [][frames' # frames =>
         countOf(dispatched', "SAVE_SNAPSHOT") = IF dragEnds THEN 1 ELSE 0]_vars

\* C22: right after SELECT or PAN snapGuides is empty, and after a release gesture
\* has ended a drag snapGuides is empty.
C22_GuidesCleared ==
    [][/\ (dispatched' # << >> /\ dispatched'[Len(dispatched')] \in {"SELECT", "PAN"})
            => snapGuides' = << >>
       /\ dragEnds => snapGuides' = << >>]_vars

\* The scene position of a hand: its mirrored frame position in the viewport, less
\* the pan (the zoom is 1).
scenePos(hand, px, py) == [x |-> (1000 - hand.x) - px, y |-> hand.y - py]
center(obj) == [x |-> obj.x + obj.width \div 2, y |-> obj.y + obj.height \div 2]
minus(p, q) == [x |-> p.x - q.x, y |-> p.y - q.y]
theHand(hs) == IF isPresent(hs.leftHand) THEN hs.leftHand[1] ELSE hs.rightHand[1]
moved(commands) == \E i \in 1..Len(commands) : commands[i] = "MOVE"

\* C23: when a drag starts the grab offset is the hand's scene position minus the
\* center of the drag target; while the drag lasts neither the target nor the offset
\* changes; and every MOVE dispatched targets hand scene position - grab offset -
\* half the object's size, wherever the object is now.
C23_GrabOffsetPreserved ==
    [][/\ (~isDraggingRef /\ isDraggingRef') =>
             /\ find(objects', dragObjectRef') # << >>
             /\ grabOffsetRef' =
                   << minus(scenePos(theHand(handState'), panX', panY'),
                            center(find(objects', dragObjectRef')[1])) >>
       /\ (isDraggingRef /\ isDraggingRef') =>
             dragObjectRef' = dragObjectRef /\ grabOffsetRef' = grabOffsetRef
       /\ moved(dispatched') =>
             /\ isDraggingRef /\ lastAction'.type = "MOVE"
             /\ lastAction'.payload.id = dragObjectRef
             /\ [x |-> lastAction'.payload.x + find(objects', dragObjectRef)[1].width \div 2,
                 y |-> lastAction'.payload.y + find(objects', dragObjectRef)[1].height \div 2]
                = minus(scenePos(theHand(handState'), panX', panY'), grabOffsetRef[1])]_vars

\* C23 witness: a MOVE of the drag target has been dispatched and the object was
\* snapped to another object instead of landing on the proposed position, so the
\* hand is no longer at the grab offset from the object's center.
C23_Witness ==
    /\ isDraggingRef /\ moved(dispatched) /\ lastAction.type = "MOVE"
    /\ snapGuides # << >>
    /\ find(objects, dragObjectRef) # << >>
    /\ find(objects, dragObjectRef)[1].x # lastAction.payload.x
    /\ grabOffsetRef[1] #
         minus(scenePos(theHand(handState), panX, panY), center(find(objects, dragObjectRef)[1]))

\* C24: a stored snapshot is independent of the live objects: CREATE, MOVE, DELETE,
\* DUPLICATE, COLOR, TEXT, LOCK, UNLOCK, SELECT, PAN, ZOOM and RESET_CANVAS leave
\* every history entry and historyIndex as they are, and no command other than
\* SAVE_SNAPSHOT changes history.
LiveActions ==
    MutationActions \cup SelectActions \cup PanActions \cup ZoomActions
    \cup {PlainAction("RESET_CANVAS")}
C24_SnapshotsIndependent ==
    /\ \A a \in LiveActions :
          reduce(a).history = history /\ reduce(a).historyIndex = historyIndex
    /\ \A a \in {UNDO, REDO, PlainAction("CLEAR_SNAP_GUIDES")} :
          reduce(a).history = history

\* C24 witness: a snapshot holds an object, and a MOVE has since put the live
\* object somewhere else; the snapshot still has the old position.
C24_Witness ==
    /\ lastAction.type = "MOVE"
    /\ Len(history) >= 2
    /\ \E i \in 1..Len(objects) :
          /\ objects[i].id = lastAction.payload.id
          /\ i <= Len(history[historyIndex + 1])
          /\ history[historyIndex + 1][i].id = objects[i].id
          /\ history[historyIndex + 1][i].x # objects[i].x

\* C25: the documented gestures: a frame in which a hand shows a closed fist
\* resolves to grab, a single open hand resolves to release, and two open hands
\* resolve to pan.
C25_DocumentedGestures ==
    /\ (shows(handState.leftHand, "isFist") \/ shows(handState.rightHand, "isFist"))
         => handState.gesture = "grab"
    /\ ((isPresent(handState.leftHand) # isPresent(handState.rightHand))
         /\ (shows(handState.leftHand, "isOpen") \/ shows(handState.rightHand, "isOpen")))
         => handState.gesture = "release"
    /\ (shows(handState.leftHand, "isOpen") /\ shows(handState.rightHand, "isOpen"))
         => handState.gesture = "pan"

\* C26: each documented voice phrase is parsed to its own command type.
Documented ==
    { << "create box", "CREATE_BOX" >>, << "create sticky note", "CREATE_STICKY" >>,
      << "create circle", "CREATE_CIRCLE" >>, << "create arrow", "CREATE_ARROW" >>,
      << "delete object", "DELETE" >>, << "duplicate object", "DUPLICATE" >>,
      << "lock this", "LOCK" >>, << "unlock this", "UNLOCK" >>,
      << "undo", "UNDO" >>, << "redo", "REDO" >>,
      << "zoom in", "ZOOM_IN" >>, << "zoom out", "ZOOM_OUT" >> }
C26_DocumentedPhrases ==
    \A d \in Documented :
        (command # << >> /\ normalizeText(transcript) = d[1]) => command = << d[2] >>

\* The guide the result holds for one axis: << >> or << guide >>.
guideOf(r, type) == SelectSeq(r.guides, LAMBDA g : g.type = type)

\* C27: snapToGrid returns every multiple of 10 (positive, zero or negative) as it
\* is, and snapping a snapped value changes nothing: for the coordinates around the
\* origin, and for the coordinates calculateSnap is called with and those it
\* returns from the grid.
GridProbes == -35..35
gridIdempotent(v) ==
    /\ v % GRID_SIZE = 0 => snapToGrid(v) = v
    /\ snapToGrid(snapToGrid(v)) = snapToGrid(v)
    /\ snapToGrid(v) % GRID_SIZE = 0
C27_GridSnapIdempotent ==
    /\ \A v \in GridProbes : gridIdempotent(v) /\ gridIdempotent(GRID_SIZE * v)
    /\ snapCase # << >> => gridIdempotent(snapCase[1].newX) /\ gridIdempotent(snapCase[1].newY)
    /\ (snapOut # << >> /\ guideOf(snapOut[1], "vertical") = << >>)
         => snapToGrid(snapOut[1].x) = snapOut[1].x
    /\ (snapOut # << >> /\ guideOf(snapOut[1], "horizontal") = << >>)
         => snapToGrid(snapOut[1].y) = snapOut[1].y

\* C27 witness: a negative proposed y that is no multiple of 10 went to the grid.
C27_Witness ==
    /\ snapOut # << >> /\ guideOf(snapOut[1], "horizontal") = << >>
    /\ snapCase[1].newY = -52 /\ snapOut[1].y = -50

\* The features of an object on an axis, in the order left/top, right/bottom,
\* center, as offsets from its position; the edge names of the guides.
Axes == {"x", "y"}
posOn(o, axis) == IF axis = "x" THEN o.x ELSE o.y
sizeOn(o, axis) == IF axis = "x" THEN o.width ELSE o.height
featureOffset(o, axis, k) ==
    CASE k = 1 -> 0 [] k = 2 -> sizeOn(o, axis) [] k = 3 -> sizeOn(o, axis) \div 2
edgeName(axis, k) ==
    IF axis = "x" THEN << "left", "right", "centerX" >>[k]
    ELSE << "top", "bottom", "centerY" >>[k]
guideType(axis) == IF axis = "x" THEN "vertical" ELSE "horizontal"
\* A pairing << i, a, f >>: feature a of the i-th other object with feature f of the
\* dragged object placed at coordinate v; the pairings closer than the threshold.
pairDistance(c, axis, v, t) ==
    Abs(v + featureOffset(c.draggedObject, axis, t[3])
        - (posOn(c.otherObjects[t[1]], axis) + featureOffset(c.otherObjects[t[1]], axis, t[2])))
pairs(c, axis, v) ==
    { t \in (1..Len(c.otherObjects)) \X (1..3) \X (1..3) :
        /\ c.otherObjects[t[1]].id # c.draggedObject.id
        /\ ~c.otherObjects[t[1]].locked
        /\ pairDistance(c, axis, v, t) < SNAP_THRESHOLD }
before(s, t) ==
    \/ s[1] < t[1]
    \/ s[1] = t[1] /\ s[2] < t[2]
    \/ s[1] = t[1] /\ s[2] = t[2] /\ s[3] < t[3]
\* The pairing that wins: none is closer, and none as close comes before it.
wins(c, axis, v, t) ==
    /\ t \in pairs(c, axis, v)
    /\ \A s \in pairs(c, axis, v) :
          /\ pairDistance(c, axis, v, s) >= pairDistance(c, axis, v, t)
          /\ pairDistance(c, axis, v, s) = pairDistance(c, axis, v, t) => ~before(s, t)
proposedOn(c, axis) == IF axis = "x" THEN c.newX ELSE c.newY
resultOn(r, axis) == IF axis = "x" THEN r.x ELSE r.y

\* C28: on each axis, among the pairings of a dragged feature with a feature of
\* another object that are strictly closer than 15, the closest wins and among
\* equally close ones the first in iteration order; the result puts the dragged
\* feature exactly on the other object's feature, and the guide is at that
\* coordinate and names the two features.
snappedTo(c, r, axis, t) ==
    LET target == posOn(c.otherObjects[t[1]], axis)
                  + featureOffset(c.otherObjects[t[1]], axis, t[2])
    IN  /\ resultOn(r, axis) + featureOffset(c.draggedObject, axis, t[3]) = target
        /\ guideOf(r, guideType(axis)) =
              << [type |-> guideType(axis), position |-> target,
                  fromObject |-> [id |-> c.draggedObject.id, edge |-> edgeName(axis, t[3])],
                  toObject |-> [id |-> c.otherObjects[t[1]].id, edge |-> edgeName(axis, t[2])]] >>
C28_ClosestPairWins ==
    (snapCase # << >> /\ snapOut # << >>) =>
        \A axis \in Axes :
            \A t \in pairs(snapCase[1], axis, proposedOn(snapCase[1], axis)) :
                wins(snapCase[1], axis, proposedOn(snapCase[1], axis), t)
                    => snappedTo(snapCase[1], snapOut[1], axis, t)

\* C28 witness: on the x axis two objects offer a feature at the same smallest
\* distance, and the guide goes to the one that is first in the array although it
\* has the higher id.
C28_Witness ==
    /\ snapCase # << >> /\ snapOut # << >>
    /\ \E s, t \in pairs(snapCase[1], "x", snapCase[1].newX) :
          /\ wins(snapCase[1], "x", snapCase[1].newX, t)
          /\ s[1] > t[1]
          /\ pairDistance(snapCase[1], "x", snapCase[1].newX, s)
                = pairDistance(snapCase[1], "x", snapCase[1].newX, t)
          /\ snapCase[1].otherObjects[t[1]].id > snapCase[1].otherObjects[s[1]].id
          /\ guideOf(snapOut[1], "vertical")[1].toObject.id = snapCase[1].otherObjects[t[1]].id

\* C29: a MOVE that takes effect emits no guide to a locked object or to the moved
\* object itself, and puts the object where it would go if the locked objects were
\* not in the scene.
withoutLocked(s) == [s EXCEPT !.objects = SelectSeq(s.objects, LAMBDA o : ~o.locked)]
takesEffect(s, a) == find(s.objects, a.payload.id) # << >> /\ ~find(s.objects, a.payload.id)[1].locked
noLockedTarget(s, a, n) ==
    /\ \A k \in 1..Len(n.snapGuides) :
          /\ n.snapGuides[k].toObject.id # a.payload.id
          /\ find(s.objects, n.snapGuides[k].toObject.id) # << >>
          /\ ~find(s.objects, n.snapGuides[k].toObject.id)[1].locked
    /\ find(n.objects, a.payload.id) =
          find(canvasReducer(withoutLocked(s), a, nextId).objects, a.payload.id)
C29_LockedNeverTargets ==
    \A a \in MoveActions : takesEffect(state, a) => noLockedTarget(state, a, reduce(a))

\* C29 witness: a MOVE has put an object where its x is closer than 15 to a feature
\* of a locked object, and it went to the grid without a guide.
C29_Witness ==
    /\ lastAction.type = "MOVE" /\ snapGuides = << >>
    /\ \E i, j \in 1..Len(objects) :
          /\ objects[i].id = lastAction.payload.id
          /\ objects[i].x = snapToGrid(lastAction.payload.x)
          /\ objects[j].locked /\ i # j
          /\ \E ka, kf \in 1..3 :
                Abs(lastAction.payload.x + featureOffset(objects[i], "x", kf)
                    - (objects[j].x + featureOffset(objects[j], "x", ka))) < SNAP_THRESHOLD

\* C30: the axes are resolved independently. The resulting coordinate and guide of
\* an axis stay the same when the proposed coordinate on the other axis, the
\* dragged object's extent on the other axis and the other objects' position and
\* extent on the other axis are changed; an axis without a pairing closer than the
\* threshold gets the proposed coordinate rounded to the grid and no guide,
\* whatever the other axis does.
otherAxis(axis) == IF axis = "x" THEN "y" ELSE "x"
onAxis(o, axis, pos, size) ==
    IF axis = "x" THEN [o EXCEPT !.x = pos, !.width = size]
    ELSE [o EXCEPT !.y = pos, !.height = size]
\* The calls that differ from c on the given axis only.
variants(c, axis) ==
    { [draggedObject |-> onAxis(c.draggedObject, axis, posOn(c.draggedObject, axis),
                                sizeOn(c.draggedObject, axis) + ds),
       newX |-> IF axis = "x" THEN v ELSE c.newX,
       newY |-> IF axis = "y" THEN v ELSE c.newY,
       otherObjects |-> [k \in DOMAIN c.otherObjects |->
                            onAxis(c.otherObjects[k], axis,
                                   posOn(c.otherObjects[k], axis) + dp,
                                   sizeOn(c.otherObjects[k], axis) + ds)]] :
        v \in {5, 88, 130, 260}, dp \in {0, 37}, ds \in {0, 20} }
snapOf(c) == calculateSnap(c.draggedObject, c.newX, c.newY, c.otherObjects)
C30_AxesIndependent ==
    (snapCase # << >> /\ snapOut # << >>) =>
        \A axis \in Axes :
            /\ \A c \in variants(snapCase[1], otherAxis(axis)) :
                  /\ resultOn(snapOf(c), axis) = resultOn(snapOut[1], axis)
                  /\ guideOf(snapOf(c), guideType(axis)) = guideOf(snapOut[1], guideType(axis))
            /\ pairs(snapCase[1], axis, proposedOn(snapCase[1], axis)) = {}
                  => /\ resultOn(snapOut[1], axis) = snapToGrid(proposedOn(snapCase[1], axis))
                     /\ guideOf(snapOut[1], guideType(axis)) = << >>

\* C30 witness: x is aligned to an object and has its guide, while y has no
\* pairing in reach, is rounded to a grid line other than the proposed value and
\* has no guide.
C30_Witness ==
    /\ snapCase # << >> /\ snapOut # << >>
    /\ pairs(snapCase[1], "x", snapCase[1].newX) # {}
    /\ Len(guideOf(snapOut[1], "vertical")) = 1
    /\ snapOut[1].x # snapToGrid(snapCase[1].newX)
    /\ pairs(snapCase[1], "y", snapCase[1].newY) = {}
    /\ guideOf(snapOut[1], "horizontal") = << >>
    /\ snapOut[1].y = snapToGrid(snapCase[1].newY) /\ snapOut[1].y # snapCase[1].newY

\* C31: the hook's retained two-hand midpoint is unset after every frame in which
\* fewer than two hands are pinching, and after every frame resolved to pan it is
\* the midpoint of the two hands' positions.
bothPinching(hs) == shows(hs.leftHand, "isPinch") /\ shows(hs.rightHand, "isPinch")
C31_MidpointReset ==
    /\ ~bothPinching(handState) => lastMidpointRef = << >>
    /\ handState.gesture = "pan" =>
          lastMidpointRef = << [x |-> (handState.leftHand[1].x + handState.rightHand[1].x) \div 2,
                                y |-> (handState.leftHand[1].y + handState.rightHand[1].y) \div 2] >>

\* C32: a MOVE that takes effect changes only the x and y of the object with that
\* id and snapGuides: the number, order, ids and other fields of objects, every
\* other object, selectedId, panX, panY, zoom, history and historyIndex stay.
moveFrame(s, a, n) ==
    /\ Len(n.objects) = Len(s.objects)
    /\ \A k \in 1..Len(s.objects) :
          IF s.objects[k].id = a.payload.id
          THEN n.objects[k] = [s.objects[k] EXCEPT !.x = n.objects[k].x, !.y = n.objects[k].y]
          ELSE n.objects[k] = s.objects[k]
    /\ n.selectedId = s.selectedId /\ n.panX = s.panX /\ n.panY = s.panY
    /\ n.zoom = s.zoom /\ n.history = s.history /\ n.historyIndex = s.historyIndex
C32_MoveFrame ==
    \A a \in MoveActions : takesEffect(state, a) => moveFrame(state, a, reduce(a))

\* C32 witness: a MOVE has taken effect on an object that is not the selected one,
\* next to another object, with a guide, and what it changed is in no snapshot.
C32_Witness ==
    /\ lastAction.type = "MOVE" /\ snapGuides # << >>
    /\ selectedId # lastAction.payload.id
    /\ Len(objects) >= 2
    /\ objects # history[historyIndex + 1]
    /\ \E i \in 1..Len(objects) :
          /\ objects[i].id = lastAction.payload.id /\ ~objects[i].locked
          /\ << objects[i].x, objects[i].y >> # << 0, 0 >>

\* C33: DUPLICATE of an object in objects appends exactly one object with an id no
\* object had, with the original's type, width, height, color, text and locked, at
\* (snapToGrid(x + 20), snapToGrid(y + 20)); the copy is selected and the objects
\* there were stay as they are.
isCopyOf(copy, o) ==
    /\ copy.type = o.type /\ copy.width = o.width /\ copy.height = o.height
    /\ copy.color = o.color /\ copy.text = o.text /\ copy.locked = o.locked
    /\ copy.x = snapToGrid(o.x + 20) /\ copy.y = snapToGrid(o.y + 20)
duplicated(s, a, n) ==
    /\ Len(n.objects) = Len(s.objects) + 1
    /\ SubSeq(n.objects, 1, Len(s.objects)) = s.objects
    /\ \A k \in 1..Len(s.objects) : s.objects[k].id # n.objects[Len(n.objects)].id
    /\ isCopyOf(n.objects[Len(n.objects)], find(s.objects, a.payload.id)[1])
    /\ n.selectedId = n.objects[Len(n.objects)].id
C33_DuplicateCopies ==
    \A a \in IdActions("DUPLICATE") :
        present(state, a.payload.id) => duplicated(state, a, reduce(a))

\* C33 witness: the last command duplicated an object that was off the grid, and
\* the copy, the last of objects and selected, is on the grid.
C33_Witness ==
    /\ lastAction.type = "DUPLICATE" /\ Len(objects) >= 2
    /\ selectedId = objects[Len(objects)].id
    /\ \E i \in 1..(Len(objects) - 1) :
          /\ objects[i].id = lastAction.payload.id
          /\ objects[i].x # snapToGrid(objects[i].x)
          /\ isCopyOf(objects[Len(objects)], objects[i])

\* C34: right after every UNDO or REDO that applies, objects is the snapshot at
\* historyIndex; so when objects differs from the current snapshot, UNDO followed
\* by REDO ends at that snapshot and not at the objects there were.
atSnapshot(n) == n.objects = n.history[n.historyIndex + 1]
C34_RestoredIsSnapshot ==
    /\ historyIndex > 0 => atSnapshot(reduce(UNDO))
    /\ historyIndex < Len(history) - 1 => atSnapshot(reduce(REDO))
    /\ (historyIndex > 0 /\ ~atSnapshot(state)) =>
          LET back == canvasReducer(reduce(UNDO), REDO, nextId)
          IN  /\ atSnapshot(back) /\ back.historyIndex = historyIndex
              /\ back.objects # objects

\* C34 witness: an object was created after the last snapshot, then UNDO and REDO:
\* objects is the snapshot at historyIndex and the object is in no snapshot.
C34_Witness ==
    /\ lastAction.type = "REDO" /\ historyIndex > 0
    /\ nextId > 1
    /\ atSnapshot(state)
    /\ \A k \in 1..Len(history) : history[k] = << >>

\* C35: the drag flag is set if and only if the drag target is non-null if and
\* only if the grab offset is non-null; the three are set together when a drag
\* starts and cleared together when it ends.
C35_DragConsistent ==
    /\ isDraggingRef <=> dragObjectRef # Null
    /\ isDraggingRef <=> grabOffsetRef # << >>

\* C35 witness: a drag is in progress and the last frame moved the object: the
\* flag, the target and the offset are all set, the target being the selection.
C35_Witness ==
    /\ frames >= 2 /\ countOf(dispatched, "MOVE") >= 1
    /\ isDraggingRef /\ dragObjectRef # Null /\ grabOffsetRef # << >>
    /\ dragObjectRef = selectedId

\* C36: a drag starts only with gesture grab and no drag in progress, and only on
\* the unlocked object whose center is nearest to the hand's scene position and
\* strictly less than 80 away, the first in list order on a tie; that object is
\* selected in the same step; when there is no such object a grab frame starts no
\* drag and dispatches no SELECT and no MOVE.
distSq(p, q) == (p.x - q.x) * (p.x - q.x) + (p.y - q.y) * (p.y - q.y)
inReach(objs, p) ==
    { k \in 1..Len(objs) : ~objs[k].locked /\ distSq(p, center(objs[k])) < 80 * 80 }
isNearest(objs, p, k) ==
    /\ k \in inReach(objs, p)
    /\ \A j \in inReach(objs, p) :
          /\ distSq(p, center(objs[j])) >= distSq(p, center(objs[k]))
          /\ distSq(p, center(objs[j])) = distSq(p, center(objs[k])) => j >= k
dragStarts == ~isDraggingRef /\ isDraggingRef'
handAt == scenePos(theHand(handState'), panX', panY')
C36_DragStartsOnNearest ==
    [][/\ dragStarts =>
             /\ handState'.gesture = "grab"
             /\ \E k \in 1..Len(objects') :
                   /\ objects'[k].id = dragObjectRef'
                   /\ isNearest(objects', handAt, k)
             /\ selectedId' = dragObjectRef'
             /\ countOf(dispatched', "SELECT") = 1
       /\ (isDraggingRef /\ isDraggingRef') => dragObjectRef' = dragObjectRef
       /\ (frames' # frames /\ handState'.gesture = "grab" /\ ~isDraggingRef
              /\ inReach(objects, handAt) = {}) =>
             /\ ~isDraggingRef'
             /\ countOf(dispatched', "SELECT") = 0 /\ countOf(dispatched', "MOVE") = 0]_vars

\* C36 witness: a drag is on an object that is not the first of objects, while an
\* object before it is in reach of the hand too but farther, or locked and nearer.
C36_Witness ==
    /\ isDraggingRef /\ handState.gesture = "grab" /\ countOf(dispatched, "SELECT") = 1
    /\ \E k \in 2..Len(objects) :
          /\ objects[k].id = dragObjectRef
          /\ isNearest(objects, scenePos(theHand(handState), panX, panY), k)
          /\ \E j \in 1..(k - 1) :
                distSq(scenePos(theHand(handState), panX, panY), center(objects[j])) < 80 * 80

\* C37: snapping never moves the object far from the proposed position: on an axis
\* where a pairing is in reach the committed coordinate differs from the proposed
\* one by strictly less than 15, and on an axis that falls back to the grid by at
\* most 5.
moveBy(c, r, axis) == Abs(resultOn(r, axis) - proposedOn(c, axis))
C37_SnapStaysNear ==
    (snapCase # << >> /\ snapOut # << >>) =>
        \A axis \in Axes :
            IF pairs(snapCase[1], axis, proposedOn(snapCase[1], axis)) # {}
            THEN moveBy(snapCase[1], snapOut[1], axis) < SNAP_THRESHOLD
            ELSE moveBy(snapCase[1], snapOut[1], axis) <= GRID_SIZE \div 2

\* C37 witness: x went to an object by more than the grid could have moved it, and
\* y went to the grid by the full 5.
C37_Witness ==
    /\ snapCase # << >> /\ snapOut # << >>
    /\ pairs(snapCase[1], "x", snapCase[1].newX) # {}
    /\ moveBy(snapCase[1], snapOut[1], "x") > GRID_SIZE \div 2
    /\ pairs(snapCase[1], "y", snapCase[1].newY) = {}
    /\ moveBy(snapCase[1], snapOut[1], "y") = GRID_SIZE \div 2

\* C38: after every MOVE that takes effect snapGuides holds at most two guides, at
\* most one vertical and at most one horizontal; each guide is from the moved
\* object to a different, unlocked object that is in objects at the move.
ofType(guides, type) == SelectSeq(guides, LAMBDA g : g.type = type)
guidesOfMove(s, a, guides) ==
    /\ Len(guides) <= 2
    /\ Len(ofType(guides, "vertical")) <= 1 /\ Len(ofType(guides, "horizontal")) <= 1
    /\ Len(ofType(guides, "vertical")) + Len(ofType(guides, "horizontal")) = Len(guides)
    /\ \A k \in 1..Len(guides) :
          /\ guides[k].fromObject.id = a.payload.id
          /\ guides[k].toObject.id # a.payload.id
          /\ \E i \in 1..Len(s.objects) :
                s.objects[i].id = guides[k].toObject.id /\ ~s.objects[i].locked
C38_GuidesOfMove ==
    \A a \in MoveActions :
        takesEffect(state, a) => guidesOfMove(state, a, reduce(a).snapGuides)

\* C38 witness: a MOVE has left two guides, a vertical and a horizontal one, both
\* from the moved object.
C38_Witness ==
    /\ lastAction.type = "MOVE" /\ Len(snapGuides) = 2
    /\ Len(ofType(snapGuides, "vertical")) = 1 /\ Len(ofType(snapGuides, "horizontal")) = 1
    /\ \A k \in 1..2 : /\ snapGuides[k].fromObject.id = lastAction.payload.id
                        /\ present(state, snapGuides[k].toObject.id)

\* C39: every send that has settled, with a result or with an error, has cleared
\* the in-flight flag, so an error does not block the frames after it: the next
\* frame of a running camera that comes with the tracker ready and valid video
\* dimensions is sent.
C39_SendErrorDoesNotBlock ==
    \A c \in DOMAIN cameras :
        /\ cameras[c].isProcessingFrame <=> cameras[c].lastSend \in {"pending", "retry"}
        /\ (cameras[c].running /\ cameras[c].lastSend \in {"ok", "error"}
              /\ handsRef /\ mediaPipeReady)
              => onFrame(cameras[c], TRUE, TRUE).isProcessingFrame

\* C39 witness: a frame has been sent by a camera whose send before had failed.
C39_Witness ==
    \E c \in DOMAIN cameras :
        cameras[c].running /\ cameras[c].lastSend = "retry" /\ cameras[c].isProcessingFrame

\* C40: with the modules loaded and camera permission granted, hand tracking
\* becomes active whichever comes first, the end of the tracker's initialization
\* or the page's one call of startTracking.  In finite-run form: once the tracker
\* is initialized and ready, the page's call has been made and no getUserMedia is
\* pending, isActive is true.
C40_TrackingBecomesActive ==
    (handsRef /\ mediaPipeReady /\ lastCall # "none" /\ pendingStarts = 0) => isActive

====
